---- MODULE Spec2Model ----
(***************************************************************************)
(* Session protocol engine of node-volapi: Room (lib/room.js) and Handler  *)
(* (lib/handler.js).  One Room object, the engine.io transport it owns,    *)
(* one connect() invocation at a time, and the callback-RPC table.         *)
(*                                                                         *)
(* Every synchronous piece of JavaScript (an event handler, the            *)
(* synchronous prefix of an async function, a promise continuation         *)
(* together with the microtasks it triggers) is one action.  Operators     *)
(* that model methods take and return a "world" record w holding the       *)
(* fields the method may touch; w.exc is the exception in flight.          *)
(***************************************************************************)
EXTENDS Integers, Sequences, FiniteSets, TLC

\* ---------------------------------------------------------------- bounds
MaxSeq == 2          \* server sequence values range over 0..MaxSeq
MaxBatch == 2        \* envelopes per inbound frame
MaxAck == 2          \* user calls / reconnects stop once ack reached this
MaxCalls == 2        \* callWithCallback requests issued
MaxAttempts == 2     \* connect() attempts of one invocation
MaxMessageLength == 2 \* config.chat_max_message_length, as the server set it
MaxTime == 2         \* the clock Date.now() ranges over 0..MaxTime
MaxUploads == 3      \* getUploadKey requests issued by one Room
NRooms == 2          \* rooms of one ManyRooms orchestrator

\* ------------------------------------------------------ program constants
MAX_UNACKNOWLEDGED == 10
ACCESS_DENIED == 403
RETRY_BASE_DELAY == 200

\* ------------------------------------------------------------- variables
VARIABLES
  ack,            \* Room.ack: outbound count
  sack,           \* Room.sack: last server sequence seen
  last_sack,      \* Room.last_sack: last server sequence acknowledged
  connected,      \* Room.connected: handshake payload processed
  closed,         \* Room.closed
  session,        \* Room.session: "none" when unset
  configLoaded,   \* Room.config.loaded
  eio,            \* Room.eio: "none" (unset/deleted), "connecting", "open", "closed"
  closing,        \* Room._closing: "none", or "sending" while _close awaits sendClose
  pongWait,       \* a ping handler is racing the pong against its deadline
  handshaken,     \* the transport has delivered its initial-connection payload
  lsn,            \* Room listeners: connect()'s once-listeners, a user 'error'
                  \* listener, the constructor's file listeners, waitFile's
                  \* once-listener for "file-<FileId>"
  callbacks,      \* Handler._callbacks: id string -> request
  reqs,           \* per callWithCallback request: promise state, timer, id
  nreq,           \* number of callWithCallback requests issued so far
  conn,           \* the connect() invocation: pc, attempt, messageWaiter and its
                  \* rejection reason err, the exception ex caught or thrown, delay
  sent,           \* frames handed to eio.send by the last step
  emitted,        \* Room events emitted by the last step
  inbound,        \* the frame given to Handler.onmessage by the last step
  dispatched,     \* positions of inbound.entries that reached the type switch
  failed,         \* the exception or rejection the last step's operation ended in
  logged,         \* console.error lines written by the last step
  wire,           \* the texts handed to eio.send by the last step, as in sent
  fwait,          \* the promise of a waitFile(FileId): "none" before the call
  roles,          \* Room.owner, Room.admin, Room.janitor, Room.staff
  subscribed,     \* 'subscribed' was emitted since the transport was created
  message,        \* the Message handed to 'chat' listeners by the last step
  files,          \* Room[FILES]: file id -> File
  now,            \* Date.now()
  timediff,       \* Room.timediff
  time_delta,     \* Room.time_delta: <<>> until a time envelope sets it
  returned,       \* the value the last step's read of files / getFile returned
  userInfo,       \* Room.userInfo: the role fields userInfo envelopes have set
  rest,           \* REST requests issued by the last step
  upload,         \* the _getUploadKey invocation: pc, result, _uploadCount, ...
  fvalue,         \* the File the waitFile promise resolved with: <<>> or <<file>>
  closeFrames,    \* close frames handed to the transport the Room holds (this.eio)
  many            \* the ManyRooms orchestrator and its rooms

vars == <<ack, sack, last_sack, connected, closed, session, configLoaded, eio,
          closing, pongWait, handshaken, lsn, callbacks, reqs, nreq, conn, sent, emitted,
          inbound, dispatched, failed, logged, wire, fwait,
          roles, subscribed,
          message, files, now, timediff, time_delta, returned, userInfo, rest, upload, fvalue, closeFrames, many>>

\* the id of the file a waitFile waits for
FileId == "f1"

\* Room.nick, checked by verifyNick in the constructor
Nick == "nick"

\* ---------------------------------------------------------------- errors
NoError == [type |-> "none", code |-> 0]
TooFastError == [type |-> "VolaError", code |-> 429]
VolaPrivilegeError == [type |-> "VolaPrivilegeError", code |-> 401]
TransportError(code) == [type |-> "transport", code |-> code]
CloseReason == [type |-> "closeReason", code |-> 0]
DeadlineError == [type |-> "deadline", code |-> 0]

\* lib/error.js.  A thrown error is named by its message; the class it was
\* built with follows from the throw statement that carries the message.
PrivilegeMessage == "I'm sorry Dave, I'm afraid I can't do that"
ValidationMessages ==
  {"Not a string message", "Empty message", "Message too long", "Cannot /achat",
   "Room is not connected", "Invalid BL duration", "No spec provided",
   "Empty spec provided", "Invalid ban duration",
   "You gotta do something to a moron"}
ErrorClass(e) ==
  IF e = PrivilegeMessage THEN "VolaPrivilegeError"
  ELSE IF e \in ValidationMessages THEN "VolaError"
  ELSE IF e = "TypeError" THEN "TypeError"
  ELSE "Error"

\* the prototype chain of an instance of the class
Prototypes(class) ==
  CASE class = "VolaPrivilegeError" -> <<"VolaPrivilegeError", "VolaError", "Error">>
    [] class = "VolaError" -> <<"VolaError", "Error">>
    [] class = "TypeError" -> <<"TypeError", "Error">>
    [] OTHER -> <<"Error">>
\* Object.defineProperty(VolaError.prototype, ...), twice
OwnMarkers(prototype) ==
  IF prototype = "VolaError" THEN {"volaSaysNo", "volaSaysPlsLeave"} ELSE {}
\* reading the property from an error: the first prototype that defines it
Carries(e, marker) ==
  \E i \in DOMAIN Prototypes(ErrorClass(e)) :
    marker \in OwnMarkers(Prototypes(ErrorClass(e))[i])

\* response codes a failed websocket upgrade can carry; 0: no response at all
Codes == {0, 403, 503}

\* the Timeout object returned by setTimeout has no toString of its own:
\* Object.prototype.toString yields the same string for every timer
TimerToString(tid) == "[object Object]"

\* ------------------------------------------------------------------ JSON
\* JSON values: numbers, strings, booleans, arrays and objects (a sequence
\* of <<key, value>> members in insertion order)
Num(n) == [n |-> n, t |-> "num"]
Str(s) == [t |-> "str", s |-> s]
Arr(a) == [t |-> "arr", a |-> a]
Obj(o) == [t |-> "obj", o |-> o]
Bool(b) == [t |-> "bool", b |-> b]

Quote(s) == "\"" \o s \o "\""

\* JSON.stringify(value): the text, without white space; the strings the
\* program serializes hold no character that needs an escape
RECURSIVE JSON_stringify(_), stringifyElements(_, _), stringifyMembers(_, _)
JSON_stringify(v) ==
  CASE v.t = "num" -> ToString(v.n)
    [] v.t = "str" -> Quote(v.s)
    [] v.t = "bool" -> IF v.b THEN "true" ELSE "false"
    [] v.t = "arr" -> "[" \o stringifyElements(v.a, 1) \o "]"
    [] OTHER -> "{" \o stringifyMembers(v.o, 1) \o "}"

stringifyElements(a, i) ==
  IF i > Len(a) THEN ""
  ELSE (IF i > 1 THEN "," ELSE "") \o JSON_stringify(a[i])
         \o stringifyElements(a, i + 1)

stringifyMembers(o, i) ==
  IF i > Len(o) THEN ""
  ELSE (IF i > 1 THEN "," ELSE "") \o Quote(o[i][1]) \o ":"
         \o JSON_stringify(o[i][2]) \o stringifyMembers(o, i + 1)

\* JSON.parse(text): recursive descent over the characters of the text.
\* Each parse function returns the value read and the position after it.
CharAt(text, i) == IF i > Len(text) THEN "" ELSE SubSeq(text, i, i)
Digits == <<"0", "1", "2", "3", "4", "5", "6", "7", "8", "9">>
IsDigit(c) == \E d \in DOMAIN Digits : Digits[d] = c
DigitValue(c) == (CHOOSE d \in DOMAIN Digits : Digits[d] = c) - 1

RECURSIVE parseDigits(_, _, _)
parseDigits(text, i, acc) ==
  IF IsDigit(CharAt(text, i))
    THEN parseDigits(text, i + 1, 10 * acc + DigitValue(CharAt(text, i)))
    ELSE [v |-> acc, i |-> i]

parseNumber(text, i) ==
  IF CharAt(text, i) = "-"
    THEN LET r == parseDigits(text, i + 1, 0) IN [v |-> Num(0 - r.v), i |-> r.i]
    ELSE LET r == parseDigits(text, i, 0) IN [v |-> Num(r.v), i |-> r.i]

\* position of the quote that ends the string starting after position i
RECURSIVE closingQuote(_, _)
closingQuote(text, i) ==
  IF i > Len(text) \/ CharAt(text, i) = "\"" THEN i ELSE closingQuote(text, i + 1)

parseString(text, i) ==
  LET j == closingQuote(text, i + 1)
  IN [v |-> SubSeq(text, i + 1, j - 1), i |-> j + 1]

RECURSIVE parseValue(_, _), parseElements(_, _, _), parseMembers(_, _, _)
parseValue(text, i) ==
  LET c == CharAt(text, i)
  IN CASE c = "[" ->
            IF CharAt(text, i + 1) = "]"
              THEN [v |-> Arr(<<>>), i |-> i + 2]
              ELSE parseElements(text, i + 1, <<>>)
       [] c = "{" ->
            IF CharAt(text, i + 1) = "}"
              THEN [v |-> Obj(<<>>), i |-> i + 2]
              ELSE parseMembers(text, i + 1, <<>>)
       [] c = "\"" ->
            LET r == parseString(text, i) IN [v |-> Str(r.v), i |-> r.i]
       [] c = "t" -> [v |-> Bool(TRUE), i |-> i + 4]
       [] c = "f" -> [v |-> Bool(FALSE), i |-> i + 5]
       [] OTHER -> parseNumber(text, i)

parseElements(text, i, acc) ==
  LET r == parseValue(text, i)
      acc1 == Append(acc, r.v)
  IN IF CharAt(text, r.i) = ","
       THEN parseElements(text, r.i + 1, acc1)
       ELSE [v |-> Arr(acc1), i |-> r.i + 1]

parseMembers(text, i, acc) ==
  LET k == parseString(text, i)
      r == parseValue(text, k.i + 1)
      acc1 == Append(acc, <<k.v, r.v>>)
  IN IF CharAt(text, r.i) = ","
       THEN parseMembers(text, r.i + 1, acc1)
       ELSE [v |-> Obj(acc1), i |-> r.i + 1]

JSON_parse(text) == parseValue(text, 1).v

\* --------------------------------------------------------------- Message
\* lib/message.js: option flags and their defaults
FLAGS ==
  [admin |-> FALSE, staff |-> FALSE, owner |-> FALSE, janitor |-> FALSE,
   user |-> FALSE, pro |-> FALSE, donator |-> FALSE, donor |-> FALSE]

\* the getters purple, green and system
purple(m) == m.admin \/ m.staff
green(m) == m.user
system(m) == purple(m) /\ ~m.user

\* Object.assign(this, FLAGS, data.options); this.donor = this.donator
assignFlags(options) ==
  LET m == [k \in DOMAIN FLAGS |->
              IF k \in DOMAIN options THEN options[k] ELSE FLAGS[k]]
  IN [m EXCEPT !.donor = m.donator]

\* variant: the admin flag is tested before the system getter
new_Message_adminFirst(data) ==
  LET m == assignFlags(data.options)
  IN [flags |-> m,
      role |-> IF m.admin THEN "Admin"
               ELSE IF system(m) THEN "System"
               ELSE IF m.staff THEN "Staff"
               ELSE IF green(m) THEN "User"
               ELSE "White"]

\* new Message(room, data): the flags and the role
new_Message(data) ==
  LET m == assignFlags(data.options)
  IN [flags |-> m,
      role |-> IF system(m) THEN "System"
               ELSE IF m.admin THEN "Admin"
               ELSE IF m.staff THEN "Staff"
               ELSE IF green(m) THEN "User"
               ELSE "White"]

NoMessage == [flags |-> FLAGS, role |-> "none"]

\* ------------------------------------------------------------------ File
FileIds == {FileId, "f2"}
NoFiles == [k \in {} |-> 0]
\* an expiry no clock value of the model reaches
FarFuture == 1000

\* the fields of a files entry the model keeps: [id, ..., expires, uploaded]
RawFile(id, expires, uploaded) ==
  [id |-> id, expires |-> expires, uploaded |-> uploaded]

fixTime(w, time) == time - w.timediff

new_File(w, data) ==
  [id |-> data.id, expires |-> fixTime(w, data.expires),
   uploaded |-> fixTime(w, data.uploaded)]

validFor(w, file) == file.expires - w.now
expired(w, file) == validFor(w, file) < 0

\* what a read returned: an array of files, one file, null or undefined
NoRead == [op |-> "none", id |-> "", kind |-> "none", value |-> {}]
Returned(op, id, kind, value) ==
  [op |-> op, id |-> id, kind |-> kind, value |-> value]

\* ---------------------------------------------------------------- frames
\* what a frame is built from: the kind of frame, sack, ack, fn and args
CallFrame(s, a, fn, args) ==
  [ack |-> a, sack |-> s, fn |-> fn, t |-> "call", args |-> args]
AckFrame(s) == [ack |-> -1, sack |-> s, fn |-> "", t |-> "ack", args |-> <<>>]
CloseFrame(s, a) == [ack |-> a, sack |-> s, fn |-> "", t |-> "close", args |-> <<>>]

\* the text handed to eio.send: JSON.stringify of the array literal
Wire(f) ==
  CASE f.t = "call" ->
         JSON_stringify(Arr(<<
           Num(f.sack),
           Arr(<<Arr(<<Num(0),
                       Arr(<<Str("call"),
                             Obj(<<<<"fn", Str(f.fn)>>,
                                   <<"args", Arr(f.args)>>>>)>>)>>),
                 Num(f.ack)>>)>>))
    [] f.t = "close" ->
         JSON_stringify(Arr(<<Num(f.sack), Arr(<<Arr(<<Num(2)>>), Num(f.ack)>>)>>))
    [] OTHER -> JSON_stringify(Arr(<<Num(f.sack)>>))

\* ----------------------------------------------------------- world record
World ==
  [ack |-> ack, sack |-> sack, last_sack |-> last_sack, connected |-> connected,
   closed |-> closed, session |-> session, eio |-> eio, closing |-> closing,
   lsn |-> lsn, callbacks |-> callbacks, reqs |-> reqs, nreq |-> nreq,
   pc |-> conn.pc, attempt |-> conn.attempt, waiter |-> conn.waiter,
   err |-> conn.err, ex |-> conn.ex, delay |-> conn.delay,
   sent |-> <<>>, emitted |-> <<>>, dispatched |-> <<>>, exc |-> "none",
   failed |-> "none", logged |-> <<>>, wire |-> <<>>, roles |-> roles,
   fwait |-> fwait,
   message |-> NoMessage,
   files |-> files,
   now |-> now,
   timediff |-> timediff,
   time_delta |-> time_delta,
   returned |-> NoRead,
   userInfo |-> userInfo,
   rest |-> <<>>,
   upload |-> upload,
   fvalue |-> fvalue,
   closeFrames |-> closeFrames,
   many |-> many,
   configLoaded |-> configLoaded]

Throw(w, e) == [w EXCEPT !.exc = e]
Caught(w) == [w EXCEPT !.exc = "none"]
Send(w, f) ==
  [w EXCEPT !.sent = Append(@, f), !.wire = Append(@, Wire(f)),
            !.closeFrames = IF f.t = "close" THEN @ + 1 ELSE @]
\* an exception that leaves a public method, or the rejection of its promise
Fail(w) == [w EXCEPT !.failed = w.exc, !.exc = "none"]
Log(w, line) == [w EXCEPT !.logged = Append(@, line)]

\* EventEmitter.emit(name): records the event; the once-listeners connect()
\* prepended run first, then the user's listeners.
NoListeners ==
  [connected |-> FALSE, error |-> FALSE, user |-> FALSE, file |-> FALSE,
   fileId |-> FALSE]
\* the constructor's own listeners for "file" and "delete_file"
ConstructorListeners == [NoListeners EXCEPT !.file = TRUE]

removeAllListeners(w) == [w EXCEPT !.lsn = NoListeners]

\* messageWaiter's resolve / reject: a settled promise ignores later calls
resolveWaiter(w) ==
  IF w.waiter = "pending" THEN [w EXCEPT !.waiter = "resolved"] ELSE w
rejectWaiter(w, e) ==
  IF w.waiter = "pending" THEN [w EXCEPT !.waiter = "rejected", !.err = e] ELSE w

emitConnected(w) ==
  LET w1 == [w EXCEPT !.emitted = Append(@, "connected")]
  IN IF w.lsn.connected
       THEN resolveWaiter([w1 EXCEPT !.lsn.connected = FALSE])
       ELSE w1

\* emit("error", e) throws e itself when no 'error' listener is registered
emitError(w, e) ==
  IF ~w.lsn.error /\ ~w.lsn.user
    THEN Throw(w, "unhandled error event")
    ELSE LET w1 == [w EXCEPT !.emitted = Append(@, "error")]
         IN IF w.lsn.error
              THEN rejectWaiter([w1 EXCEPT !.lsn.error = FALSE], e)
              ELSE w1

emitEvent(w, name) == [w EXCEPT !.emitted = Append(@, name)]

HasEvent(es, name) == \E i \in DOMAIN es : es[i] = name

\* ------------------------------------------------------------ Room methods
\* variant: the frame carries the count before the increment (this.ack++)
call_postIncrement(w, fn, args) ==
  IF ~w.connected
    THEN Throw(w, "Room is not connected")
    ELSE LET w1 == [w EXCEPT !.ack = @ + 1, !.last_sack = w.sack]
         IN IF w.eio = "none"
              THEN Throw(w1, "TypeError")
              ELSE Send(w1, CallFrame(w.sack, w.ack, fn, args))

call(w, fn, args) ==
  IF ~w.connected
    THEN Throw(w, "Room is not connected")
    ELSE LET w1 == [w EXCEPT !.ack = @ + 1, !.last_sack = w.sack]
         IN IF w.eio = "none"
              THEN Throw(w1, "TypeError")
              ELSE Send(w1, CallFrame(w.sack, w.ack + 1, fn, args))

\* variant: the flush does not test whether anything is unacknowledged
sendAck_always(w) ==
  IF ~w.connected
    THEN w
    ELSE LET w1 == [w EXCEPT !.last_sack = w.sack]
         IN IF w.eio = "none"
              THEN Throw(w1, "TypeError")
              ELSE Send(w1, AckFrame(w.sack))

sendAck(w) ==
  IF ~w.connected \/ w.last_sack = w.sack
    THEN w
    ELSE LET w1 == [w EXCEPT !.last_sack = w.sack]
         IN IF w.eio = "none"
              THEN Throw(w1, "TypeError")
              ELSE Send(w1, AckFrame(w.sack))

\* variant: the length of the message is not tested
chat_anyLength(w, msg, options) ==
  IF msg.t # "str" THEN Throw(w, "Not a string message")
  ELSE IF Len(msg.s) = 0 THEN Throw(w, "Empty message")
  ELSE IF options.admin
    THEN IF ~w.roles.admin /\ ~w.roles.staff
           THEN Throw(w, "Cannot /achat")
           ELSE call(w, "command", <<Str(Nick), Str("a"), msg>>)
  ELSE IF options.me
    THEN call(w, "command", <<Str(Nick), Str("me"), msg>>)
  ELSE call(w, "chat", <<Str(Nick), msg>>)

\* chat(msg, options): validation, then one call
chat(w, msg, options) ==
  IF msg.t # "str" THEN Throw(w, "Not a string message")
  ELSE IF Len(msg.s) = 0 THEN Throw(w, "Empty message")
  ELSE IF w.configLoaded /\ Len(msg.s) > MaxMessageLength
    THEN Throw(w, "Message too long")
  ELSE IF options.admin
    THEN IF ~w.roles.admin /\ ~w.roles.staff
           THEN Throw(w, "Cannot /achat")
           ELSE call(w, "command", <<Str(Nick), Str("a"), msg>>)
  ELSE IF options.me
    THEN call(w, "command", <<Str(Nick), Str("me"), msg>>)
  ELSE call(w, "chat", <<Str(Nick), msg>>)

without(f, k) == [j \in DOMAIN f \ {k} |-> f[j]]
with(f, k, v) == [j \in DOMAIN f \cup {k} |-> IF j = k THEN v ELSE f[j]]

expireFiles(w) ==
  [w EXCEPT !.files = [k \in {j \in DOMAIN w.files : ~expired(w, w.files[j])} |->
                         w.files[k]]]

\* variant: the getter returns the collection as it is
get_files_withoutSweep(w) ==
  [w EXCEPT !.returned =
     Returned("files", "", "array", {w.files[k] : k \in DOMAIN w.files})]

\* get files(): expireFiles(), then Array.from(this[FILES].values())
get_files(w) ==
  LET w1 == expireFiles(w)
  IN [w1 EXCEPT !.returned =
        Returned("files", "", "array", {w1.files[k] : k \in DOMAIN w1.files})]

getFile(w, id) ==
  IF id \in DOMAIN w.files /\ expired(w, w.files[id])
    THEN [w EXCEPT !.files = without(@, id),
                   !.returned = Returned("getFile", id, "null", {})]
    ELSE IF id \in DOMAIN w.files
      THEN [w EXCEPT !.returned = Returned("getFile", id, "file", {w.files[id]})]
      ELSE [w EXCEPT !.returned = Returned("getFile", id, "undefined", {})]

\* ---- role-guarded operations
privileged(w) == w.roles.owner \/ w.roles.admin \/ w.roles.janitor

\* if (!Array.isArray(ids)) ids = [ids]
toArray(ids) == IF ids.t = "arr" THEN ids ELSE Arr(<<ids>>)

\* toBanSpec(spec): the exception it throws, or the array of specs
toBanSpec(spec) ==
  IF spec.t = "str" /\ spec.s = ""
    THEN [exc |-> "No spec provided", spec |-> spec]
  ELSE LET s == IF spec.t = "str" THEN Obj(<<<<"ip", spec>>>>) ELSE spec
           a == toArray(s)
       IN IF \E i \in DOMAIN a.a : a.a[i].o = <<>>
            THEN [exc |-> "Empty spec provided", spec |-> a]
            ELSE [exc |-> "none", spec |-> a]

\* the options a caller passes, as an object
GivenOptions(options) ==
  Obj(<<<<"hours", Num(options.hours)>>, <<"ban", Bool(options.ban)>>>>)
\* Object.assign({}, {hours: 0, reason: "", purgeFiles: false, ban: false,
\* hellban: false, mute: false}, options)
BanOptions(options) ==
  Obj(<<<<"hours", Num(options.hours)>>, <<"reason", Str("")>>,
        <<"purgeFiles", Bool(FALSE)>>, <<"ban", Bool(options.ban)>>,
        <<"hellban", Bool(FALSE)>>, <<"mute", Bool(FALSE)>>>>)
\* Object.assign({}, {reason: "", ban: false, hellban: false, mute: false,
\* timeout: false}, options)
UnbanOptions(options) ==
  Obj(<<<<"reason", Str("")>>, <<"ban", Bool(options.ban)>>,
        <<"hellban", Bool(FALSE)>>, <<"mute", Bool(FALSE)>>,
        <<"timeout", Bool(FALSE)>>, <<"hours", Num(options.hours)>>>>)

deleteFiles(w, ids) ==
  IF ~privileged(w) THEN Throw(w, PrivilegeMessage)
  ELSE call(w, "deleteFiles", <<toArray(ids)>>)

whitelistFiles(w, ids) ==
  IF ~w.roles.admin THEN Throw(w, PrivilegeMessage)
  ELSE call(w, "whitelistFiles", <<toArray(ids)>>)

removeMessages(w, ids) ==
  IF ~w.roles.admin THEN Throw(w, PrivilegeMessage)
  ELSE call(w, "removeMessages", <<toArray(ids)>>)

blacklistFiles(w, ids, options) ==
  IF ~w.roles.admin THEN Throw(w, PrivilegeMessage)
  ELSE IF options.hours <= 0 THEN Throw(w, "Invalid BL duration")
  ELSE call(w, "blacklistFiles", <<toArray(ids), GivenOptions(options)>>)

ban(w, spec, options) ==
  IF ~w.roles.admin THEN Throw(w, PrivilegeMessage)
  ELSE LET s == toBanSpec(spec)
       IN IF s.exc # "none" THEN Throw(w, s.exc)
          ELSE IF options.hours <= 0 THEN Throw(w, "Invalid ban duration")
          ELSE IF ~options.ban THEN Throw(w, "You gotta do something to a moron")
          ELSE call(w, "banUser", <<s.spec, BanOptions(options)>>)

unban(w, spec, options) ==
  IF ~w.roles.admin THEN Throw(w, PrivilegeMessage)
  ELSE LET s == toBanSpec(spec)
       IN IF s.exc # "none" THEN Throw(w, s.exc)
          ELSE IF ~options.ban THEN Throw(w, "You gotta do something to a moron")
          ELSE call(w, "unbanUser", <<s.spec, UnbanOptions(options)>>)

\* setConfig up to its await: the REST request is issued.  What follows the
\* response changes no field of the Room.
setConfig(w) ==
  IF ~privileged(w) THEN Throw(w, PrivilegeMessage)
  ELSE [w EXCEPT !.rest = Append(@, "setRoomConfig")]

\* ---- upload key
\* what _getUploadKey settled with: nothing yet, the triple, or the error
NoKey == [outcome |-> "none", key |-> "", server |-> "", file_id |-> ""]
RoomIds == 1..NRooms

\* a room made by makeRoom, as far as run() and close() look at it
NewRoom ==
  [eio |-> "none", connected |-> FALSE, closed |-> FALSE, closing |-> FALSE,
   run |-> "none", listening |-> FALSE, closeResult |-> "none"]

\* the orchestrator after init(): its rooms, and its own two listeners
\* ("newListener", "removeListener")
NoMany ==
  [pc |-> "idle", race |-> "pending", rooms |-> RoomIds,
   listeners |-> {"newListener", "removeListener"},
   closeTried |-> {}, room |-> [i \in RoomIds |-> NewRoom]]

NoUpload == [pc |-> "idle", result |-> NoKey, count |-> 0, wake |-> 0, blocked |-> <<>>]

\* the head of the loop up to the await: callREST("getUploadKey", qs) with
\* c: ++this._uploadCount
getUploadKey_request(w) ==
  [w EXCEPT !.upload.pc = "requesting", !.upload.count = @ + 1,
            !.rest = Append(@, "getUploadKey")]

\* variant: a flood-control response is answered by the next request at once
getUploadKey_response_withoutSleep(w, params) ==
  IF params.key = "" \/ params.server = "" \/ params.file_id = ""
    THEN IF params.timeout # 0
           THEN getUploadKey_request(
                  [emitEvent(w, "upload_blocked") EXCEPT
                     !.upload.blocked = Append(@, [timeout |-> params.timeout,
                                                   at |-> w.now])])
         ELSE IF params.code = ACCESS_DENIED
           THEN [w EXCEPT !.upload.pc = "thrown",
                          !.upload.result.outcome = "VolaPrivilegeError"]
         ELSE [w EXCEPT !.upload.pc = "thrown", !.upload.result.outcome = "VolaError"]
    ELSE [w EXCEPT !.upload.pc = "resolved",
                   !.upload.result = [outcome |-> "triple", key |-> params.key,
                                      server |-> params.server,
                                      file_id |-> params.file_id]]

\* the loop body after the await.  params: the parsed response; an absent or
\* null field is "", an absent error.info.timeout is 0, an absent error.code 0
getUploadKey_response(w, params) ==
  IF params.key = "" \/ params.server = "" \/ params.file_id = ""
    THEN IF params.timeout # 0
           THEN [emitEvent(w, "upload_blocked") EXCEPT
                   !.upload.pc = "sleeping",
                   !.upload.wake = w.now + params.timeout,
                   !.upload.blocked = Append(@, [timeout |-> params.timeout,
                                                 at |-> w.now])]
         ELSE IF params.code = ACCESS_DENIED
           THEN [w EXCEPT !.upload.pc = "thrown",
                          !.upload.result.outcome = "VolaPrivilegeError"]
         ELSE [w EXCEPT !.upload.pc = "thrown", !.upload.result.outcome = "VolaError"]
    ELSE [w EXCEPT !.upload.pc = "resolved",
                   !.upload.result = [outcome |-> "triple", key |-> params.key,
                                      server |-> params.server,
                                      file_id |-> params.file_id]]

\* waitFile(FileId, timeout): null for an expired file the Room holds, else
\* the race of a once-listener for "file-<id>" against deadline(timeout)
waitFile(w) ==
  IF FileId \in DOMAIN w.files /\ expired(w, w.files[FileId])
    THEN [w EXCEPT !.files = without(@, FileId), !.fwait = "null"]
    ELSE [w EXCEPT !.lsn.fileId = TRUE, !.fwait = "pending"]

\* the deadline of the race rejects the promise
waitFileDeadline(w) ==
  IF w.fwait = "pending" THEN [w EXCEPT !.fwait = "rejected"] ELSE w

\* sendClose up to its await: the frame is built (++ack) and handed over
sendClose(w) ==
  IF ~w.connected
    THEN Throw(w, "Room is not connected")
    ELSE Send([w EXCEPT !.ack = @ + 1], CloseFrame(w.sack, w.ack + 1))

\* variant: every close() starts a _close of its own
close_withoutGuard(w) ==
  LET w1 == [w EXCEPT !.closed = TRUE]
  IN IF w1.eio = "none" THEN w1
     ELSE LET w2 == sendClose(w1)
          IN IF w2.exc # "none"
               THEN Fail(w2)
               ELSE [w2 EXCEPT !.closing = "sending"]

\* close() and _close() up to the first suspension.  A rejected sendClose
\* rejects _close and close(): _closing is reset and the transport is kept.
\* close() is async: it never throws into its caller, its promise rejects.
close(w) ==
  LET w1 == [w EXCEPT !.closed = TRUE]
  IN IF w1.eio = "none" THEN w1
     ELSE IF w1.closing # "none" THEN w1
     ELSE LET w2 == sendClose(w1)
          IN IF w2.exc # "none"
               THEN Fail(w2)
               ELSE [w2 EXCEPT !.closing = "sending"]

\* sendClose after its await: the race of send(call) against deadline(10 s)
\* has settled; a rejection is caught and written to console.error
\* variant: the expired deadline is rethrown
sendCloseResume_rethrows(w, timedOut) ==
  IF timedOut THEN Throw(w, "Deadline of 10000 expired") ELSE w

sendCloseResume(w, timedOut) ==
  IF timedOut THEN Log(w, "failed to send close") ELSE w

\* ------------------------------------------------------- callback-RPC layer
Requests == 1..MaxCalls
UnusedRequest == [state |-> "unused", timer |-> FALSE, id |-> "", result |-> "none"]
NoCallbacks == [k \in {} |-> 0]

\* Promise settlement of request r: only a pending promise changes
settle(w, r, state, result) ==
  IF w.reqs[r].state = "pending"
    THEN [w EXCEPT !.reqs[r].state = state, !.reqs[r].result = result]
    ELSE w

\* the timer handle of the nreq+1-th request stands for its Timeout object
registerCallback(w) ==
  LET r == w.nreq + 1
      id == TimerToString(r)
  IN [w EXCEPT !.nreq = r,
               !.reqs[r] = [state |-> "pending", timer |-> TRUE, id |-> id,
                            result |-> "none"],
               !.callbacks = [k \in DOMAIN w.callbacks \cup {id} |->
                                IF k = id THEN r ELSE w.callbacks[k]]]

\* the timer callback of registerCallback: reject(new Error("callback timeout"))
callbackTimeout(w, r) ==
  settle([w EXCEPT !.reqs[r].timer = FALSE], r, "rejected", "timeout")

\* callWithCallback(fn, ...args): args.push(id); this.call(fn, ...args)
callWithCallback(w) ==
  LET w1 == registerCallback(w)
  IN call(w1, "rpc", <<Str(w1.reqs[w1.nreq].id)>>)

handle_callback(w, id, err) ==
  IF id \notin DOMAIN w.callbacks
    THEN w
    ELSE LET r == w.callbacks[id]
             w1 == [w EXCEPT !.callbacks = [k \in DOMAIN w.callbacks \ {id} |->
                                              w.callbacks[k]],
                             !.reqs[r].timer = FALSE]
         IN IF err THEN settle(w1, r, "rejected", "error")
                   ELSE settle(w1, r, "resolved", "value")

\* ------------------------------------------------------------ other handlers
\* variant: the payload's session value replaces a token already held
handle_initial_connection_overwrites(w, data) ==
  LET w1 == [w EXCEPT !.connected = TRUE, !.ack = data.ack]
  IN IF w1.session # "none"
       THEN call([w1 EXCEPT !.session = data.session], "useSession",
                 <<Str(data.session)>>)
       ELSE [w1 EXCEPT !.session = data.session]

handle_initial_connection(w, data) ==
  LET w1 == [w EXCEPT !.connected = TRUE, !.ack = data.ack]
  IN IF w1.session # "none"
       THEN call(w1, "useSession", <<Str(w1.session)>>)
       ELSE [w1 EXCEPT !.session = data.session]

\* emit("file", file, set); emit(`file-${file.id}`, file, set) per file: the
\* once-listener of a waitFile for that id resolves its promise
\* the constructor's "file" listener stores the file under its id
RECURSIVE emitFiles(_, _, _)
emitFiles(w, list, i) ==
  IF i > Len(list) THEN w
  ELSE LET file == new_File(w, list[i])
           w0 == emitEvent(emitEvent(w, "file"), "file-" \o file.id)
           w1 == IF w0.lsn.file
                   THEN [w0 EXCEPT !.files = with(@, file.id, file)]
                   ELSE w0
           w2 == IF file.id = FileId /\ w1.lsn.fileId
                   THEN [w1 EXCEPT !.lsn.fileId = FALSE,
                                   !.fwait = IF @ = "pending" THEN "resolved" ELSE @,
                                   !.fvalue = IF w1.fwait = "pending"
                                                THEN <<file>> ELSE @]
                   ELSE w1
       IN emitFiles(w2, list, i + 1)

handle_files(w, set, list) ==
  LET w1 == IF set THEN emitConnected(w) ELSE w
      w2 == emitFiles(w1, list, 1)
  IN IF set THEN emitEvent(w2, "received_files") ELSE w2

\* emit("delete_file", data): the constructor's listener drops the entry
handle_delete_file(w, fid) ==
  LET w1 == emitEvent(w, "delete_file")
  IN IF w1.lsn.file THEN [w1 EXCEPT !.files = without(@, fid)] ELSE w1

\* ---- role envelopes.  data: the role fields of the payload
NoUserInfo == [k \in {} |-> FALSE]
\* const {owner = false} = data, and !!this.userInfo.owner
field(data, k) == IF k \in DOMAIN data THEN data[k] ELSE FALSE

\* Object.assign(this.userInfo, data), then every role from this.userInfo
handle_userInfo(w, data) ==
  LET info == [k \in DOMAIN w.userInfo \cup DOMAIN data |->
                 IF k \in DOMAIN data THEN data[k] ELSE w.userInfo[k]]
      w1 == [w EXCEPT !.userInfo = info,
                      !.roles = [admin |-> field(info, "admin"),
                                 staff |-> field(info, "staff"),
                                 owner |-> field(info, "owner"),
                                 janitor |-> field(info, "janitor")]]
  IN emitEvent(emitEvent(emitEvent(emitEvent(emitEvent(
       w1, "owner"), "janitor"), "admin"), "staff"), "userInfo")

handle_owner(w, data) ==
  emitEvent([w EXCEPT !.roles.owner = field(data, "owner")], "owner")

handle_admin(w, data) ==
  emitEvent([w EXCEPT !.roles.admin = field(data, "admin")], "admin")

handle_staff(w, data) ==
  emitEvent([w EXCEPT !.roles.staff = field(data, "staff")], "staff")

\* this.time_delta = data - Date.now()
handle_time(w, data) ==
  emitEvent([w EXCEPT !.time_delta = <<data - w.now>>], "time")

handle_subscribed(w) == emitEvent(w, "subscribed")

\* this.emit("chat", new this.Message(this, data))
handle_chat(w, data) == emitEvent([w EXCEPT !.message = new_Message(data)], "chat")

handle_401(w) ==
  LET w1 == emitError(w, VolaPrivilegeError)
  IN IF w1.exc # "none" THEN w1 ELSE close(w1)

\* variant: the rate-limit envelope closes without emitting 'error'
handle_429_silent(w) == close(w)

handle_429(w) ==
  LET w1 == emitError(w, TooFastError)
  IN IF w1.exc # "none" THEN w1 ELSE close(w1)

\* emit(type, data); a listener of the event may throw
handle_generic(w, type, throws) ==
  LET w1 == emitEvent(w, type)
  IN IF throws THEN Throw(w1, "listener") ELSE w1

\* --------------------------------------------------------------- dispatcher
\* inbound envelopes: d = [[0, [type, msg]], seq], [[2], seq], or not a pair
Seqs == 0..MaxSeq
CallbackIds == {TimerToString(0), "unknown"}
Envelope(kind, seq, id, flag) == [id |-> id, kind |-> kind, seq |-> seq, flag |-> flag]

\* lifecycle traffic: close control, files snapshot, 401, 429
LifecycleEnvelopes ==
  {Envelope(k, 0, "", k = "files") : k \in {"close", "files", "401", "429"}}
\* dispatcher traffic: lifecycle envelopes, an event whose listener throws,
\* an entry that is not a pair
DispatcherEnvelopes ==
  LifecycleEnvelopes
  \cup {Envelope("malformed", 0, "", FALSE), Envelope("generic", 0, "", TRUE)}
\* sequencer traffic: plain events under every server sequence value
SequenceEnvelopes == {Envelope("generic", s, "", FALSE) : s \in Seqs}
\* file traffic: the first snapshot {set: true, files: []} and an added file
FileEnvelopes ==
  {Envelope("files", 0, "", TRUE), Envelope("files", 0, FileId, FALSE)}
\* flush traffic: events, with or without a throwing listener, whose sequence
\* values lie just below and at the multiples of the flush threshold
FarSeqs ==
  {k * MAX_UNACKNOWLEDGED + j : k \in 0..MaxSeq, j \in {-1, 0}} \ {-1}
FlushEnvelopes == {Envelope("generic", s, "", f) : s \in FarSeqs, f \in BOOLEAN}
\* milestone traffic: the subscribed envelope, the first snapshot, an added file
MilestoneEnvelopes ==
  {Envelope("subscribed", 0, "", FALSE), Envelope("files", 0, "", TRUE),
   Envelope("files", 0, FileId, FALSE)}
\* chat traffic: chat envelopes whose options give a value to any subset of
\* the three flags the role is computed from and of one other flag (donator)
OptionKeys == {"admin", "staff", "user", "donator"}
ChatOptionSets == UNION {[K -> BOOLEAN] : K \in SUBSET OptionKeys}
ChatEnvelopes ==
  {[id |-> "", kind |-> "chat", seq |-> 0, flag |-> FALSE, options |-> o] :
     o \in ChatOptionSets}
\* file store traffic: files payloads with one file of any expiry, and
\* delete_file envelopes
Times == 0..MaxTime
RawFileSet == {RawFile(id, e, 0) : id \in FileIds, e \in Times}
StoreEnvelopes ==
  {[id |-> "", kind |-> "files", seq |-> 0, flag |-> set, files |-> <<f>>] :
     set \in BOOLEAN, f \in RawFileSet}
  \cup {Envelope("delete_file", 0, id, FALSE) : id \in FileIds}
\* clock traffic: time envelopes carrying the server's time, and files
\* payloads with one file of any expiry and upload time
ServerTimes == 0..(MaxTime + 1)
ClockEnvelopes ==
  {[id |-> "", kind |-> "time", seq |-> 0, flag |-> FALSE, time |-> t] :
     t \in ServerTimes}
  \cup {[id |-> "", kind |-> "files", seq |-> 0, flag |-> FALSE,
         files |-> <<RawFile(FileId, e, u)>>] : e \in ServerTimes, u \in ServerTimes}
\* role traffic: owner, admin and staff envelopes that set their role or
\* leave it out, userInfo envelopes that mention any subset of the roles
PartialFlags(K) == UNION {[J -> BOOLEAN] : J \in SUBSET K}
RoleEnvelope(kind, data) ==
  [id |-> "", kind |-> kind, seq |-> 0, flag |-> FALSE, data |-> data]
RoleEnvelopes ==
  UNION {{RoleEnvelope(k, data) : data \in PartialFlags({k})} :
           k \in {"owner", "admin", "staff"}}
  \cup {RoleEnvelope("userInfo", data) :
          data \in PartialFlags({"owner", "admin", "staff"})}
\* privilege traffic: owner, admin and staff envelopes, and userInfo
\* envelopes that mention at most the janitor role
GuardEnvelopes ==
  UNION {{RoleEnvelope(k, data) : data \in PartialFlags({k})} :
           k \in {"owner", "admin", "staff"}}
  \cup {RoleEnvelope("userInfo", data) : data \in PartialFlags({"janitor"})}
\* callback-RPC traffic: callback envelopes {id, args: [err, val]}
CallbackEnvelopes == {Envelope("callback", 0, id, f) : id \in CallbackIds, f \in BOOLEAN}

RECURSIVE SeqsUpTo(_, _)
SeqsUpTo(S, n) ==
  IF n = 0 THEN {<<>>}
  ELSE LET shorter == SeqsUpTo(S, n - 1)
       IN shorter \cup {Append(q, x) : q \in {p \in shorter : Len(p) = n - 1}, x \in S}

\* a parsed inbound frame: the initial-connection payload (not an array) or
\* an array of entries (its leading last_ack is stored and never read)
NoFrame == [ack |-> -1, session |-> "", kind |-> "none", entries |-> <<>>]
InitialFrame(sess, a) == [ack |-> a, session |-> sess, kind |-> "initial", entries |-> <<>>]
ArrayFrame(es) == [ack |-> -1, session |-> "", kind |-> "array", entries |-> es]

InitialFrames == {InitialFrame("s1", 0)}
\* handshake payloads with different session values and outbound counts
HandshakeFrames == {InitialFrame(s, a) : s \in {"s1", "s2"}, a \in 0..(MaxAck - 1)}
Batches(E) == {ArrayFrame(es) : es \in SeqsUpTo(E, MaxBatch) \ {<<>>}}
Singles(E) == {ArrayFrame(<<d>>) : d \in E}

\* the files of a files payload; an envelope that only names an id carries
\* one file that does not expire
RawFiles(d) ==
  IF "files" \in DOMAIN d THEN d.files
  ELSE IF d.id = "" THEN <<>>
  ELSE <<RawFile(d.id, FarFuture, 0)>>

handle(w, d) ==
  CASE d.kind = "files" -> handle_files(w, d.flag, RawFiles(d))
    [] d.kind = "delete_file" -> handle_delete_file(w, d.id)
    [] d.kind = "time" -> handle_time(w, d.time)
    [] d.kind = "userInfo" -> handle_userInfo(w, d.data)
    [] d.kind = "owner" -> handle_owner(w, d.data)
    [] d.kind = "admin" -> handle_admin(w, d.data)
    [] d.kind = "staff" -> handle_staff(w, d.data)
    [] d.kind = "subscribed" -> handle_subscribed(w)
    [] d.kind = "chat" -> handle_chat(w, d)
    [] d.kind = "401" -> handle_401(w)
    [] d.kind = "429" -> handle_429(w)
    [] d.kind = "callback" -> handle_callback(w, d.id, d.flag)
    [] OTHER -> handle_generic(w, "generic", d.flag)

\* this.room.close().catch(console.error)
closeCatch(w) ==
  LET w1 == close([w EXCEPT !.failed = "none"])
  IN IF w1.failed # "none"
       THEN Log([w1 EXCEPT !.failed = w.failed], w1.failed)
       ELSE [w1 EXCEPT !.failed = w.failed]

\* variant: the close control envelope is skipped
dispatch_ignoresClose(w, d, i) ==
  IF d.kind = "malformed"
    THEN w
    ELSE LET w1 == [w EXCEPT !.sack = d.seq, !.dispatched = Append(@, i)]
         IN IF d.kind = "close"
              THEN w1
              ELSE LET w2 == Caught(handle(w1, d))
                   IN IF w2.sack >= w2.last_sack + MAX_UNACKNOWLEDGED
                        THEN Caught(sendAck(w2))
                        ELSE w2

\* variant: no try/catch around the handler call
dispatch_withoutCatch(w, d, i) ==
  IF d.kind = "malformed"
    THEN w
    ELSE LET w1 == [w EXCEPT !.sack = d.seq, !.dispatched = Append(@, i)]
         IN IF d.kind = "close"
              THEN closeCatch(w1)
              ELSE LET w2 == handle(w1, d)
                   IN IF w2.exc = "none"
                         /\ w2.sack >= w2.last_sack + MAX_UNACKNOWLEDGED
                        THEN Caught(sendAck(w2))
                        ELSE w2

\* variant: the flush waits until the gap exceeds the threshold
dispatch_flushesLate(w, d, i) ==
  IF d.kind = "malformed"
    THEN w
    ELSE LET w1 == [w EXCEPT !.sack = d.seq, !.dispatched = Append(@, i)]
         IN IF d.kind = "close"
              THEN closeCatch(w1)
              ELSE LET w2 == Caught(handle(w1, d))
                   IN IF w2.sack > w2.last_sack + MAX_UNACKNOWLEDGED
                        THEN Caught(sendAck(w2))
                        ELSE w2

\* one iteration of the for loop of onmessage, d = data[i]
dispatch(w, d, i) ==
  IF d.kind = "malformed"
    THEN w
    ELSE LET w1 == [w EXCEPT !.sack = d.seq, !.dispatched = Append(@, i)]
         IN IF d.kind = "close"
              THEN closeCatch(w1)
              ELSE LET w2 == Caught(handle(w1, d))
                   IN IF w2.sack >= w2.last_sack + MAX_UNACKNOWLEDGED
                        THEN Caught(sendAck(w2))
                        ELSE w2

RECURSIVE onmessageFrom(_, _, _)
onmessageFrom(w, data, i) ==
  IF i > Len(data) \/ w.exc # "none" THEN w
  ELSE onmessageFrom(dispatch(w, data[i], i), data, i + 1)

onmessage(w, data) ==
  IF data.kind = "initial"
    THEN handle_initial_connection(w, data)
    ELSE onmessageFrom(w, data.entries, 1)

\* ------------------------------------------------------------------ connect
\* /response: 5\d{2}$/i on the transport error's description.message
\* "Unexpected server response: <code>"
\* variant: every error response is retried
MatchesRetryPattern_anyError(code) == code >= 400

MatchesRetryPattern(code) == code \div 100 = 5 /\ code < 1000

HasDescription(ex) == ex.type = "transport"

connectFinally(w) == [w EXCEPT !.lsn.connected = FALSE, !.lsn.error = FALSE]

connectCatch(w, ex) ==
  IF HasDescription(ex) /\ MatchesRetryPattern(ex.code)
    THEN [w EXCEPT !.pc = "sleeping", !.ex = ex,
                   !.delay = RETRY_BASE_DELAY * w.attempt]
    ELSE connectFinally([w EXCEPT !.pc = "thrown", !.ex = ex])

\* variant: connect() returns once openConnection resolved
connectResume_withoutWaiter(w) ==
  IF w.pc # "waiting" THEN w
  ELSE IF w.waiter = "rejected" THEN connectCatch(w, w.err)
  ELSE connectFinally([w EXCEPT !.pc = "resolved"])

\* the continuation of connect() once messageWaiter has settled
connectResume(w) ==
  IF w.pc # "waiting" \/ w.waiter = "pending" THEN w
  ELSE IF w.waiter = "resolved" THEN connectFinally([w EXCEPT !.pc = "resolved"])
  ELSE connectCatch(w, w.err)

\* openConnection's promise rejected while connect() awaits it
rejectOpen(w, ex) ==
  IF w.pc = "opening" THEN connectCatch(w, ex) ELSE w

\* _close after sendClose, then the finally of close(): this.eio.close();
\* delete this.eio; this._closing = null.  Closing a live transport fires
\* its "close" handlers.
_closeResume(w, timedOut) ==
  LET w1 == sendCloseResume(w, timedOut)
  IN IF w1.exc # "none"
       THEN Fail([w1 EXCEPT !.closing = "none"])
       ELSE LET w2 == [w1 EXCEPT !.closing = "none", !.eio = "none",
                                  !.closeFrames = 0]
            IN CASE w.eio = "open" ->
                      removeAllListeners(
                        emitEvent([w2 EXCEPT !.closed = TRUE], "close"))
                 [] w.eio \in {"connecting", "openIgnored"} ->
                      rejectOpen([w2 EXCEPT !.closed = TRUE], CloseReason)
                 [] OTHER -> w2

\* ------------------------------------------------------------------ actions
Commit(w) ==
  /\ ack' = w.ack /\ sack' = w.sack /\ last_sack' = w.last_sack
  /\ connected' = w.connected /\ closed' = w.closed /\ session' = w.session
  /\ eio' = w.eio /\ closing' = w.closing /\ lsn' = w.lsn
  /\ callbacks' = w.callbacks /\ reqs' = w.reqs /\ nreq' = w.nreq
  /\ conn' = [pc |-> w.pc, attempt |-> w.attempt, waiter |-> w.waiter,
              err |-> w.err, ex |-> w.ex, delay |-> w.delay]
  /\ sent' = w.sent /\ emitted' = w.emitted /\ dispatched' = w.dispatched
  /\ failed' = w.failed /\ logged' = w.logged /\ wire' = w.wire
  /\ roles' = w.roles /\ fwait' = w.fwait
  /\ many' = w.many
  /\ closeFrames' = w.closeFrames
  /\ fvalue' = w.fvalue
  /\ upload' = w.upload
  /\ rest' = w.rest
  /\ userInfo' = w.userInfo
  /\ returned' = w.returned
  /\ time_delta' = w.time_delta
  /\ timediff' = w.timediff
  /\ now' = w.now
  /\ files' = w.files
  /\ message' = w.message

Init ==
  /\ ack = -1 /\ sack = -1 /\ last_sack = -1
  /\ connected = FALSE /\ closed = FALSE
  /\ session \in {"none", "s0"}
  /\ configLoaded = FALSE
  /\ eio = "none" /\ closing = "none" /\ pongWait = FALSE /\ handshaken = FALSE
  /\ lsn = ConstructorListeners
  /\ callbacks = NoCallbacks
  /\ reqs = [r \in Requests |-> UnusedRequest]
  /\ nreq = 0
  /\ conn = [pc |-> "idle", attempt |-> 0, waiter |-> "none", err |-> NoError,
             ex |-> NoError, delay |-> 0]
  /\ sent = <<>> /\ emitted = <<>> /\ inbound = NoFrame /\ dispatched = <<>>
  /\ failed = "none" /\ logged = <<>> /\ wire = <<>> /\ fwait = "none"
  /\ roles = [admin |-> FALSE, staff |-> FALSE, owner |-> FALSE, janitor |-> FALSE]
  /\ subscribed = FALSE
  /\ many = NoMany
  /\ closeFrames = 0
  /\ fvalue = <<>>
  /\ upload = NoUpload
  /\ rest = <<>>
  /\ userInfo = NoUserInfo
  /\ returned = NoRead
  /\ time_delta = <<>>
  /\ timediff = 0
  /\ now = 0
  /\ files = NoFiles
  /\ message = NoMessage

\* room.on("error", ...) by the user of the Room
OnError ==
  /\ ~lsn.user
  /\ Commit([World EXCEPT !.lsn.user = TRUE])
  /\ UNCHANGED <<configLoaded, pongWait, handshaken, subscribed>> /\ inbound' = NoFrame

\* Room.connect(): first iteration up to the await inside openConnection
connect ==
  /\ conn.pc \in {"idle", "resolved", "thrown"}
  /\ eio \in {"none", "closed"}
  /\ ack < MaxAck
  /\ Commit([World EXCEPT !.pc = "config", !.attempt = 1, !.waiter = "pending",
                          !.err = NoError, !.ex = NoError, !.delay = 0,
                          !.lsn.connected = TRUE, !.lsn.error = TRUE])
  /\ UNCHANGED <<configLoaded, pongWait, handshaken, subscribed>> /\ inbound' = NoFrame

\* ensureConfig rejects (REST failure, config.error): connect() rethrows
ensureConfigFails ==
  /\ conn.pc = "config" /\ ~configLoaded
  /\ Commit(connectCatch(World, [type |-> "VolaError", code |-> 0]))
  /\ UNCHANGED <<configLoaded, pongWait, handshaken, subscribed>> /\ inbound' = NoFrame

\* openConnection after ensureConfig: closed = false, this.eio = new EIO(...)
openConnection ==
  /\ conn.pc = "config"
  /\ Commit([World EXCEPT !.pc = "opening", !.closed = FALSE, !.eio = "connecting",
                          !.closeFrames = 0])
  /\ configLoaded' = TRUE /\ handshaken' = FALSE /\ subscribed' = FALSE
  /\ UNCHANGED pongWait /\ inbound' = NoFrame

\* the sleep of a retry ends: finally, then the next iteration of the loop
connectRetry ==
  /\ conn.pc = "sleeping"
  /\ conn.attempt < MaxAttempts
  /\ Commit([connectFinally(World) EXCEPT
               !.pc = "config", !.attempt = @ + 1, !.waiter = "pending",
               !.err = NoError, !.ex = NoError, !.delay = 0,
               !.lsn.connected = TRUE, !.lsn.error = TRUE])
  /\ UNCHANGED <<configLoaded, pongWait, handshaken, subscribed>> /\ inbound' = NoFrame

\* eio "open": ignored when closed, else installs the error/close handlers,
\* emits 'open' and resolves openConnection
eioOpen ==
  /\ eio = "connecting"
  /\ IF closed
       THEN Commit([World EXCEPT !.eio = "openIgnored"])
       ELSE LET w1 == emitEvent([World EXCEPT !.eio = "open"], "open")
                w2 == IF w1.pc = "opening" THEN [w1 EXCEPT !.pc = "waiting"] ELSE w1
            IN Commit(connectResume(w2))
  /\ UNCHANGED <<configLoaded, pongWait, handshaken, subscribed>> /\ inbound' = NoFrame

\* eio "error" / "close" before the open handler ran: the once-handlers
eioFailsBeforeOpen(ex) ==
  /\ eio \in {"connecting", "openIgnored"}
  /\ Commit(rejectOpen([World EXCEPT !.closed = TRUE, !.eio = "closed"], ex))
  /\ UNCHANGED <<configLoaded, pongWait, handshaken, subscribed>> /\ inbound' = NoFrame

\* eio "error" after open, followed by the "close" engine.io emits with it.
\* Without any 'error' listener the emit throws out of the handler.
eioErrorAfterOpen(ex) ==
  /\ eio = "open"
  /\ LET w0 == [World EXCEPT !.closed = TRUE, !.eio = "closed"]
         w1 == emitError(w0, ex)
     IN IF w1.exc # "none"
          THEN Commit(Fail(w1))
          ELSE Commit(connectResume(
                 removeAllListeners(emitEvent(removeAllListeners(w1), "close"))))
  /\ UNCHANGED <<configLoaded, pongWait, handshaken, subscribed>> /\ inbound' = NoFrame

\* eio "close" after open
eioCloseAfterOpen ==
  /\ eio = "open"
  /\ Commit(removeAllListeners(
       emitEvent([World EXCEPT !.closed = TRUE, !.eio = "closed"], "close")))
  /\ UNCHANGED <<configLoaded, pongWait, handshaken, subscribed>> /\ inbound' = NoFrame

TransportFailure ==
  \/ \E c \in Codes : eioFailsBeforeOpen(TransportError(c))
  \/ eioFailsBeforeOpen(CloseReason)
  \/ \E c \in Codes : eioErrorAfterOpen(TransportError(c))
  \/ eioCloseAfterOpen

\* eio "message": ignored when closed, else Handler.onmessage
MessageFrom(F) ==
  /\ eio = "open" /\ ~closed
  /\ \E data \in F :
       /\ Commit(connectResume(onmessage(World, data)))
       /\ inbound' = data
       /\ handshaken' = (handshaken \/ data.kind = "initial")
       /\ subscribed' = (subscribed \/ HasEvent(emitted', "subscribed"))
  /\ UNCHANGED <<configLoaded, pongWait>>

LifecycleFrames == Batches(LifecycleEnvelopes)
DispatcherFrames == Batches(DispatcherEnvelopes)
SequenceFrames == Singles(SequenceEnvelopes)
CallbackFrames == Singles(CallbackEnvelopes)
FileFrames == Singles(FileEnvelopes)
FlushFrames == Singles(FlushEnvelopes)
MilestoneFrames == Batches(MilestoneEnvelopes)
ChatFrames == Singles(ChatEnvelopes)
StoreFrames == Singles(StoreEnvelopes)
ClockFrames == Singles(ClockEnvelopes)
RoleFrames == Singles(RoleEnvelopes)
GuardFrames == Singles(GuardEnvelopes)

Handshake == MessageFrom(InitialFrames)
AnyHandshake == MessageFrom(HandshakeFrames)
Message == MessageFrom(LifecycleFrames)
FaultyMessage == MessageFrom(DispatcherFrames)
SequencedMessage == MessageFrom(SequenceFrames)
CallbackMessage == MessageFrom(CallbackFrames)
FileMessage == MessageFrom(FileFrames)
FlushMessage == MessageFrom(FlushFrames)
MilestoneMessage == MessageFrom(MilestoneFrames)
ChatMessage == MessageFrom(ChatFrames)
StoreMessage == MessageFrom(StoreFrames)
ClockMessage == MessageFrom(ClockFrames)
RoleMessage == MessageFrom(RoleFrames)
GuardMessage == MessageFrom(GuardFrames)

\* eio "ping": sendAck, then wait for the pong
Ping ==
  /\ eio \in {"open", "openIgnored"}
  /\ Commit(sendAck(World))
  /\ pongWait' = TRUE
  /\ UNCHANGED <<configLoaded, handshaken, subscribed>> /\ inbound' = NoFrame

Pong ==
  /\ pongWait /\ eio \in {"open", "openIgnored"}
  /\ pongWait' = FALSE
  /\ Commit(World)
  /\ UNCHANGED <<configLoaded, handshaken, subscribed>> /\ inbound' = NoFrame

\* deadline(20 s) of the ping handler: emit 'error', then close(), whose
\* rejection is ignored
PongDeadline ==
  /\ pongWait
  /\ pongWait' = FALSE
  /\ LET w1 == emitError(World, DeadlineError)
     IN IF w1.exc # "none"
          THEN Commit(Fail(w1))
          ELSE Commit(connectResume([close(w1) EXCEPT !.failed = "none"]))
  /\ UNCHANGED <<configLoaded, handshaken, subscribed>> /\ inbound' = NoFrame

\* _close resumes after sendClose: the frame was flushed by a transport
\* that is open, or the 10 s deadline expired
closeFinish ==
  /\ closing = "sending"
  /\ eio # "none"
  /\ \E timedOut \in BOOLEAN :
       /\ ~timedOut => eio \in {"open", "openIgnored"}
       /\ Commit(_closeResume(World, timedOut))
  /\ UNCHANGED <<configLoaded, pongWait, handshaken, subscribed>> /\ inbound' = NoFrame

\* public methods called by the user of the Room; an exception thrown into
\* the caller leaves the assignments made before it
Call ==
  /\ ack < MaxAck
  /\ Commit(Fail(call(World, "chat", <<Str(Nick), Str("hi")>>)))
  /\ UNCHANGED <<configLoaded, pongWait, handshaken, subscribed>> /\ inbound' = NoFrame

\* the messages and options chat() is called with: not a string, empty,
\* up to one character more than the configured maximum
RECURSIVE Text(_)
Text(n) == IF n = 0 THEN "" ELSE "a" \o Text(n - 1)
ChatMessages ==
  <<Num(5)>> \o [n \in 1..(MaxMessageLength + 2) |-> Str(Text(n - 1))]
ChatOptions ==
  {[me |-> FALSE, admin |-> FALSE], [me |-> TRUE, admin |-> FALSE],
   [me |-> FALSE, admin |-> TRUE]}

ChatWith(msg, options) ==
  /\ ack < MaxAck
  /\ Commit(Fail(chat(World, msg, options)))
  /\ UNCHANGED <<configLoaded, pongWait, handshaken, subscribed>> /\ inbound' = NoFrame

Chat == \E i \in DOMAIN ChatMessages, options \in ChatOptions :
          ChatWith(ChatMessages[i], options)

CallWithCallback ==
  /\ ack < MaxAck /\ nreq < MaxCalls
  /\ Commit(Fail(callWithCallback(World)))
  /\ UNCHANGED <<configLoaded, pongWait, handshaken, subscribed>> /\ inbound' = NoFrame

SendAck ==
  /\ last_sack # sack
  /\ Commit(Fail(sendAck(World)))
  /\ UNCHANGED <<configLoaded, pongWait, handshaken, subscribed>> /\ inbound' = NoFrame

Close ==
  /\ Commit(close(World))
  /\ UNCHANGED <<configLoaded, pongWait, handshaken, subscribed>> /\ inbound' = NoFrame

WaitFile ==
  /\ fwait = "none"
  /\ Commit(waitFile(World))
  /\ UNCHANGED <<configLoaded, pongWait, handshaken, subscribed>> /\ inbound' = NoFrame

WaitFileDeadline ==
  /\ fwait = "pending"
  /\ Commit(waitFileDeadline(World))
  /\ UNCHANGED <<configLoaded, pongWait, handshaken, subscribed>> /\ inbound' = NoFrame

\* the arguments the role-guarded operations are called with: one id or an
\* array of ids; no spec, an address, an empty and a filled spec object;
\* options with and without a duration and an action
Ids == <<Str(FileId), Arr(<<Str(FileId)>>)>>
BanSpecs ==
  <<Str(""), Str("1.2.3.4"), Obj(<<>>), Obj(<<<<"ip", Str("1.2.3.4")>>>>)>>
GuardOptions == [hours : {0, 1}, ban : BOOLEAN]

DeleteFilesWith(ids) ==
  /\ ack < MaxAck
  /\ Commit(Fail(deleteFiles(World, ids)))
  /\ UNCHANGED <<configLoaded, pongWait, handshaken, subscribed>> /\ inbound' = NoFrame

WhitelistFilesWith(ids) ==
  /\ ack < MaxAck
  /\ Commit(Fail(whitelistFiles(World, ids)))
  /\ UNCHANGED <<configLoaded, pongWait, handshaken, subscribed>> /\ inbound' = NoFrame

RemoveMessagesWith(ids) ==
  /\ ack < MaxAck
  /\ Commit(Fail(removeMessages(World, ids)))
  /\ UNCHANGED <<configLoaded, pongWait, handshaken, subscribed>> /\ inbound' = NoFrame

BlacklistFilesWith(ids, options) ==
  /\ ack < MaxAck
  /\ Commit(Fail(blacklistFiles(World, ids, options)))
  /\ UNCHANGED <<configLoaded, pongWait, handshaken, subscribed>> /\ inbound' = NoFrame

BanWith(spec, options) ==
  /\ ack < MaxAck
  /\ Commit(Fail(ban(World, spec, options)))
  /\ UNCHANGED <<configLoaded, pongWait, handshaken, subscribed>> /\ inbound' = NoFrame

UnbanWith(spec, options) ==
  /\ ack < MaxAck
  /\ Commit(Fail(unban(World, spec, options)))
  /\ UNCHANGED <<configLoaded, pongWait, handshaken, subscribed>> /\ inbound' = NoFrame

DeleteFiles == \E i \in DOMAIN Ids : DeleteFilesWith(Ids[i])
WhitelistFiles == \E i \in DOMAIN Ids : WhitelistFilesWith(Ids[i])
RemoveMessages == \E i \in DOMAIN Ids : RemoveMessagesWith(Ids[i])
BlacklistFiles ==
  \E i \in DOMAIN Ids, options \in GuardOptions : BlacklistFilesWith(Ids[i], options)
Ban == \E i \in DOMAIN BanSpecs, options \in GuardOptions : BanWith(BanSpecs[i], options)
Unban ==
  \E i \in DOMAIN BanSpecs, options \in GuardOptions : UnbanWith(BanSpecs[i], options)

SetConfig ==
  /\ Commit(Fail(setConfig(World)))
  /\ UNCHANGED <<configLoaded, pongWait, handshaken, subscribed>> /\ inbound' = NoFrame

\* the clock advances
Tick ==
  /\ now < MaxTime
  /\ Commit([World EXCEPT !.now = @ + 1])
  /\ UNCHANGED <<configLoaded, pongWait, handshaken, subscribed>> /\ inbound' = NoFrame

\* room.files
ReadFiles ==
  /\ Commit(get_files(World))
  /\ UNCHANGED <<configLoaded, pongWait, handshaken, subscribed>> /\ inbound' = NoFrame

\* room.getFile(id)
GetFile ==
  /\ \E id \in FileIds : Commit(getFile(World, id))
  /\ UNCHANGED <<configLoaded, pongWait, handshaken, subscribed>> /\ inbound' = NoFrame

\* the responses of the getUploadKey endpoint: each field of the triple
\* present or not, with and without a retry-after, with and without the
\* access-denied code
UploadResponses ==
  [code : {0, ACCESS_DENIED}, key : {"", "k1", "k2"}, server : {"", "s1"},
   file_id : {"", "f1"}, timeout : 0..MaxTime]

\* _getUploadKey() is called: the first request of the loop
GetUploadKey ==
  /\ upload.pc \in {"idle", "resolved", "thrown"}
  /\ upload.count < MaxUploads
  /\ Commit(getUploadKey_request(
       [World EXCEPT !.upload = [NoUpload EXCEPT !.count = upload.count]]))
  /\ UNCHANGED <<configLoaded, pongWait, handshaken, subscribed>> /\ inbound' = NoFrame

\* callREST resolves with the parsed response
UploadResponseWith(params) ==
  /\ upload.pc = "requesting"
  /\ upload.count <= MaxUploads
  /\ Commit(getUploadKey_response(World, params))
  /\ UNCHANGED <<configLoaded, pongWait, handshaken, subscribed>> /\ inbound' = NoFrame

UploadResponse == \E params \in UploadResponses : UploadResponseWith(params)

\* the timer of sleep(timeout) fires: continue, the next request
UploadWake ==
  /\ upload.pc = "sleeping"
  /\ now >= upload.wake
  /\ upload.count < MaxUploads
  /\ Commit(getUploadKey_request(World))
  /\ UNCHANGED <<configLoaded, pongWait, handshaken, subscribed>> /\ inbound' = NoFrame

Timeout ==
  /\ \E r \in Requests :
       /\ reqs[r].timer
       /\ Commit(callbackTimeout(World, r))
  /\ UNCHANGED <<configLoaded, pongWait, handshaken, subscribed>> /\ inbound' = NoFrame

\* session lifecycle: connect with retries, transport events, handshake,
\* lifecycle envelopes, close
Next ==
  \/ OnError \/ connect \/ ensureConfigFails \/ openConnection \/ connectRetry
  \/ eioOpen \/ TransportFailure \/ Handshake \/ Message
  \/ Ping \/ Pong \/ PongDeadline \/ Close \/ closeFinish

Spec == Init /\ [][Next]_vars

\* closing: connections, transport failures, lifecycle envelopes and close.
\* _close always resumes: sendClose races the send against deadline(10 s)
NextClose ==
  \/ OnError \/ connect \/ openConnection \/ eioOpen \/ TransportFailure
  \/ Handshake \/ Message \/ Close \/ closeFinish

FairSpec == Init /\ [][NextClose]_vars /\ WF_vars(closeFinish)

\* dispatcher: an established connection and frames whose entries may fail
NextBatch ==
  \/ OnError \/ connect \/ openConnection \/ eioOpen \/ Handshake
  \/ FaultyMessage \/ closeFinish

SpecBatch == Init /\ [][NextBatch]_vars

\* sequencer: an established connection, sequenced events, calls and acks
NextSeq ==
  \/ connect \/ openConnection \/ eioOpen \/ Handshake \/ SequencedMessage
  \/ Call \/ SendAck \/ Ping \/ Pong

SpecSeq == Init /\ [][NextSeq]_vars

\* callback-RPC: an established connection, requests, replies and timeouts
NextRpc ==
  \/ connect \/ openConnection \/ eioOpen \/ Handshake \/ CallbackMessage
  \/ CallWithCallback \/ Timeout

SpecRpc == Init /\ [][NextRpc]_vars

\* use of a session through its life: connections, transport failures,
\* calls and close
NextUse ==
  \/ connect \/ openConnection \/ eioOpen \/ TransportFailure \/ Handshake
  \/ Call \/ Chat \/ CallWithCallback \/ Close \/ closeFinish

SpecUse == Init /\ [][NextUse]_vars

\* pending work across a close: requests, file waits, their timers, close
NextWait ==
  \/ connect \/ openConnection \/ eioOpen \/ Handshake \/ FileMessage
  \/ CallWithCallback \/ Timeout \/ WaitFile \/ WaitFileDeadline
  \/ Close \/ closeFinish

SpecWait == Init /\ [][NextWait]_vars

\* acknowledgment flushing: an established connection, events whose
\* sequence values run ahead, calls and pings
NextFlush ==
  \/ connect \/ openConnection \/ eioOpen \/ Handshake \/ FlushMessage
  \/ Call \/ Ping \/ Pong

SpecFlush == Init /\ [][NextFlush]_vars

\* outbound frames: an established connection, sequenced events, chat,
\* requests and close
NextWire ==
  \/ connect \/ openConnection \/ eioOpen \/ Handshake \/ SequencedMessage
  \/ Chat \/ CallWithCallback \/ Close \/ closeFinish

SpecWire == Init /\ [][NextWire]_vars

\* milestones of a connection: handshake payload, subscribed envelope and
\* file snapshots in any order, across closes and new connections
NextOrder ==
  \/ OnError \/ connect \/ openConnection \/ eioOpen \/ TransportFailure
  \/ Handshake \/ MilestoneMessage \/ Close \/ closeFinish

SpecOrder == Init /\ [][NextOrder]_vars

\* session token: handshake payloads with different tokens, with and without
\* a token held from construction or from an earlier connection
NextSession ==
  \/ connect \/ openConnection \/ eioOpen \/ TransportFailure \/ AnyHandshake
  \/ Call \/ Close \/ closeFinish

SpecSession == Init /\ [][NextSession]_vars

\* chat entities: an established connection and chat envelopes
NextChat ==
  \/ connect \/ openConnection \/ eioOpen \/ Handshake \/ ChatMessage

SpecChat == Init /\ [][NextChat]_vars

\* file store: files announced and deleted, the clock, reads, and a close
\* followed by a new connection
NextFiles ==
  \/ connect \/ openConnection \/ eioOpen \/ Handshake \/ StoreMessage
  \/ Tick \/ ReadFiles \/ GetFile \/ Close \/ closeFinish

SpecFiles == Init /\ [][NextFiles]_vars

\* clock correction: time envelopes, files announced after them, the clock
NextClock ==
  \/ connect \/ openConnection \/ eioOpen \/ Handshake \/ ClockMessage \/ Tick

SpecClock == Init /\ [][NextClock]_vars

\* roles: an established connection and role envelopes in any order
NextRoles ==
  \/ connect \/ openConnection \/ eioOpen \/ Handshake \/ RoleMessage

SpecRoles == Init /\ [][NextRoles]_vars

\* privileges: an established connection, envelopes that grant and revoke
\* roles, the role-guarded operations and chat
NextGuard ==
  \/ connect \/ openConnection \/ eioOpen \/ Handshake \/ GuardMessage
  \/ DeleteFiles \/ WhitelistFiles \/ RemoveMessages \/ BlacklistFiles
  \/ Ban \/ Unban \/ SetConfig \/ Chat

SpecGuard == Init /\ [][NextGuard]_vars

\* upload key: requests, their responses, the retry timer and the clock
NextUpload == GetUploadKey \/ UploadResponse \/ UploadWake \/ Tick

SpecUpload == Init /\ [][NextUpload]_vars

\* ----------------------------------------------------------------- ManyRooms
\* Room.run(): this.on("error", reject); this.once("close", resolve)
Room_run(r) == [r EXCEPT !.run = "pending", !.listening = TRUE]

\* a transport handler of an open Room: closed = true, emit(ev),
\* removeAllListeners(); the listeners of run() settle its promise
Room_event(r, ev) ==
  [r EXCEPT !.closed = TRUE,
            !.run = IF r.listening /\ @ = "pending"
                      THEN (IF ev = "close" THEN "resolved" ELSE "rejected")
                      ELSE @,
            !.listening = FALSE]

\* Room.close() up to its first suspension: without a transport it returns,
\* a running _close is awaited, and sendClose throws on a Room that is not
\* connected (the rejection resets _closing and keeps the transport)
Room_close(r) ==
  LET r1 == [r EXCEPT !.closed = TRUE]
  IN IF r1.eio = "none" THEN [r1 EXCEPT !.closeResult = "resolved"]
     ELSE IF r1.closing THEN [r1 EXCEPT !.closeResult = "pending"]
     ELSE IF ~r1.connected THEN [r1 EXCEPT !.closeResult = "rejected"]
     ELSE [r1 EXCEPT !.closing = TRUE, !.closeResult = "pending"]

\* _close after sendClose: this.eio.close() fires the "close" handler of a
\* live transport; delete this.eio; this._closing = null
Room_closeResume(r) ==
  LET r1 == IF r.eio = "open" THEN Room_event(r, "close") ELSE r
  IN [r1 EXCEPT !.eio = "none", !.closing = FALSE,
                !.closeResult = IF @ = "pending" THEN "resolved" ELSE @]

\* ManyRooms.close(): room.close() is called on every room held, each in a
\* try/catch of its own
ManyRooms_close(m) ==
  [m EXCEPT !.closeTried = @ \cup m.rooms,
            !.room = [i \in RoomIds |->
                        IF i \in m.rooms THEN Room_close(m.room[i])
                        ELSE m.room[i]]]

\* ManyRooms.run() up to the await of the race
ManyRooms_run(m) ==
  [m EXCEPT !.pc = "racing", !.race = "pending",
            !.room = [i \in RoomIds |->
                        IF i \in m.rooms THEN Room_run(m.room[i])
                        ELSE m.room[i]]]

\* Promise.race: the first room whose run() settles settles the race
ManyRooms_race(m, i) ==
  IF m.pc = "racing" /\ m.race = "pending"
     /\ m.room[i].run \in {"resolved", "rejected"}
    THEN [m EXCEPT !.race = m.room[i].run]
    ELSE m

\* run() after the race: finally { await this.close() }
ManyRooms_runFinally(m) ==
  IF m.pc = "racing" /\ m.race # "pending"
    THEN [ManyRooms_close(m) EXCEPT !.pc = "closing"]
    ELSE m

\* run() after close(): a rejected race is rethrown out of the finally;
\* otherwise this.removeAllListeners(); this._rooms.length = 0
ManyRooms_runFinish(m) ==
  IF m.pc = "closing" /\ \A i \in m.rooms : m.room[i].closeResult # "pending"
    THEN IF m.race = "rejected"
           THEN [m EXCEPT !.pc = "rejected"]
           ELSE [m EXCEPT !.pc = "resolved", !.listeners = {}, !.rooms = {}]
    ELSE m

\* the continuations of run() that an event of room i makes runnable
ManyRooms_runResume(m, i) ==
  ManyRooms_runFinish(ManyRooms_runFinally(ManyRooms_race(m, i)))

ManyCommit(m) ==
  /\ Commit([World EXCEPT !.many = m])
  /\ UNCHANGED <<configLoaded, pongWait, handshaken, subscribed>> /\ inbound' = NoFrame

\* the user subscribes to an event of the orchestrator
ManyOn ==
  /\ many.pc \in {"idle", "racing"}
  /\ \E ev \in {"file", "chat"} :
       /\ ev \notin many.listeners
       /\ ManyCommit([many EXCEPT !.listeners = @ \cup {ev}])

\* ManyRooms.connect(): the transport of room i opens
ManyRoomOpen(i) ==
  /\ many.pc \in {"idle", "racing"}
  /\ i \in many.rooms
  /\ many.room[i].eio = "none" /\ ~many.room[i].closed
  /\ ManyCommit([many EXCEPT !.room[i].eio = "open"])

\* the initial-connection payload of room i arrives
ManyRoomHandshake(i) ==
  /\ many.room[i].eio = "open" /\ ~many.room[i].closed
  /\ ~many.room[i].connected
  /\ ManyCommit([many EXCEPT !.room[i].connected = TRUE])

ManyRun ==
  /\ many.pc = "idle"
  /\ ManyCommit(ManyRooms_run(many))

\* the open transport of room i closes or fails
ManyRoomEvent(i, ev) ==
  /\ many.room[i].eio = "open"
  /\ ManyCommit(ManyRooms_runResume(
       [many EXCEPT !.room[i] = [Room_event(@, ev) EXCEPT !.eio = "dead"]], i))

\* _close of room i resumes after its sendClose
ManyRoomCloseFinish(i) ==
  /\ many.room[i].closing
  /\ ManyCommit(ManyRooms_runResume(
       [many EXCEPT !.room[i] = Room_closeResume(@)], i))

\* an orchestrator over its rooms: connections, run() and the events and
\* closes of the rooms
NextMany ==
  \/ ManyOn \/ ManyRun
  \/ \E i \in RoomIds :
       \/ ManyRoomOpen(i) \/ ManyRoomHandshake(i) \/ ManyRoomCloseFinish(i)
       \/ \E ev \in {"close", "error"} : ManyRoomEvent(i, ev)

SpecMany == Init /\ [][NextMany]_vars

\* =================================================================== claims
HasKind(f, K) == \E i \in DOMAIN f.entries : f.entries[i].kind \in K
HasFrame(fs, t) == \E i \in DOMAIN fs : fs[i].t = t

\* C1: last_sack never decreases and never exceeds sack, whatever sequence
\* values the inbound frames carry and however call(), sendAck() and pings
\* interleave.
C1_AckWithinSeenAndMonotonic ==
  [](last_sack <= sack) /\ [][last_sack' >= last_sack]_vars

FatalError(kind) == IF kind = "401" THEN VolaPrivilegeError ELSE TooFastError

C3_FatalEnvelopeRejectsConnect ==
  [][\A i \in DOMAIN inbound'.entries :
        ( /\ conn.pc = "waiting" /\ conn.waiter = "pending"
          /\ inbound'.kind = "array"
          /\ inbound'.entries[i].kind \in {"401", "429"}
          /\ \A j \in 1..(i - 1) :
               inbound'.entries[j].kind \notin {"files", "401", "429"} )
        => /\ conn'.pc = "thrown"
           /\ conn'.ex = FatalError(inbound'.entries[i].kind)
           /\ conn'.attempt = conn.attempt]_vars

C3_Witness ==
  /\ conn.pc = "thrown" /\ conn.ex = TooFastError
  /\ inbound.kind = "array" /\ HasKind(inbound, {"429"})

\* C4: a close control envelope dispatched while the session is connected
\* sets the closed flag, sends the close frame and starts the close, which
\* ends with the transport closed and released; the step emits 'error' only
\* if the same frame also carries a 401 or 429 envelope.
SessionConnected == connected /\ eio = "open" /\ ~closed /\ closing = "none"

C4_CloseEnvelopeClosesSession ==
  /\ [][(SessionConnected /\ HasKind(inbound', {"close"}))
          => /\ closed' /\ closing' = "sending"
             /\ HasFrame(sent', "close")
             /\ (HasEvent(emitted', "error")
                   => HasKind(inbound', {"401", "429"}))]_vars
  /\ ((closing = "sending") ~> (eio = "none" /\ closing = "none" /\ closed))

C4_Witness ==
  /\ inbound.kind = "array" /\ HasKind(inbound, {"close"})
  /\ connected /\ closed /\ closing = "sending" /\ HasFrame(sent, "close")
  /\ ~HasEvent(emitted, "error")

\* C5: a request that is never answered is rejected by its timeout, and once
\* it has timed out the pending-callback table holds no entry for it.
InTable(r) == \E id \in DOMAIN callbacks : callbacks[id] = r

C5_TimedOutRequestLeavesTable ==
  \A r \in Requests : reqs[r].result = "timeout" => ~InTable(r)

\* C6: no two requests that are pending at the same time carry the same
\* correlation id.
C6_PendingIdsDistinct ==
  \A r1, r2 \in Requests :
    (r1 # r2 /\ reqs[r1].state = "pending" /\ reqs[r2].state = "pending")
      => reqs[r1].id # reqs[r2].id

\* C7: a callback envelope whose id belongs to a pending request removes the
\* entry, cancels the timer and rejects (args[0] set) or resolves the
\* request; a callback envelope whose id is not pending changes neither the
\* table nor any request; a settled request never changes again.
PendingId(id) == \E r \in Requests : reqs[r].id = id /\ reqs[r].state = "pending"

C7_CallbackSettlesOnce ==
  [][/\ \A r \in Requests :
          reqs[r].state \in {"resolved", "rejected"}
            => (reqs'[r].state = reqs[r].state /\ reqs'[r].result = reqs[r].result)
     /\ (inbound'.kind = "array" /\ Len(inbound'.entries) = 1
           /\ inbound'.entries[1].kind = "callback")
        => LET d == inbound'.entries[1]
           IN IF d.id \in DOMAIN callbacks /\ reqs[callbacks[d.id]].state = "pending"
                THEN LET r == callbacks[d.id]
                     IN /\ d.id \notin DOMAIN callbacks'
                        /\ ~reqs'[r].timer
                        /\ reqs'[r].state = (IF d.flag THEN "rejected" ELSE "resolved")
                ELSE ~PendingId(d.id)
                       => (callbacks' = callbacks /\ reqs' = reqs)]_vars

\* C8: every entry of an inbound frame that is a pair reaches the type
\* switch, in arrival order, whatever the handlers of earlier entries threw;
\* a files envelope later in the frame still emits 'connected'.
RECURSIVE PairPositions(_, _)
PairPositions(es, i) ==
  IF i > Len(es) THEN <<>>
  ELSE IF es[i].kind = "malformed" THEN PairPositions(es, i + 1)
  ELSE <<i>> \o PairPositions(es, i + 1)

C8_ExceptionIsolatedPerEnvelope ==
  inbound.kind = "array"
    => /\ dispatched = PairPositions(inbound.entries, 1)
       /\ (HasKind(inbound, {"files"}) => HasEvent(emitted, "connected"))

C8_Witness ==
  /\ inbound.kind = "array" /\ Len(inbound.entries) = 2
  /\ inbound.entries[1].kind = "generic" /\ inbound.entries[1].flag
  /\ inbound.entries[2].kind = "files"
  /\ dispatched = <<1, 2>> /\ HasEvent(emitted, "connected")

\* C9: once a transport has delivered its initial-connection payload, a
\* later non-array payload on the same transport changes neither ack nor the
\* session token and sends no frame.
C9_HandshakeRunsOnce ==
  [][(handshaken /\ inbound'.kind = "initial")
       => (ack' = ack /\ session' = session /\ sent' = <<>>)]_vars

\* C10: a failed attempt of connect() is followed by a sleep of 200 ms times
\* the attempt number and another attempt exactly when the failure is a
\* transport error with a 5xx response; any other failure is thrown at once,
\* and a transport is only ever opened by an attempt of a running connect().
ServerOverload(ex) == ex.type = "transport" /\ ex.code \in 500..599

C10_RetryOnlyOn5xx ==
  /\ [](conn.pc = "sleeping"
          => ServerOverload(conn.ex) /\ conn.delay = 200 * conn.attempt)
  /\ [](conn.pc = "thrown" => ~ServerOverload(conn.ex))
  /\ [][/\ conn'.attempt # conn.attempt
             => \/ conn'.attempt = 1 /\ conn.pc \in {"idle", "resolved", "thrown"}
                \/ /\ conn.pc = "sleeping" /\ conn'.pc = "config"
                   /\ conn'.attempt = conn.attempt + 1
        /\ (eio' = "connecting" /\ eio # "connecting") => conn.pc = "config"
        /\ conn.pc = "thrown"
             => (conn'.pc = "thrown" \/ (conn'.pc = "config" /\ conn'.attempt = 1))
       ]_vars

C10_Witness ==
  /\ conn.attempt = 2 /\ conn.pc = "opening" /\ eio = "connecting"

\* C11: close() on a connected session ends with the transport closed and
\* the reference deleted, whether the close frame was flushed or the 10 s
\* deadline expired first: the step that ends the close leaves no transport,
\* rejects nothing and emits no 'error'; an expired deadline is only logged.
C11_CloseAlwaysReleasesTransport ==
  /\ [][(closing = "sending" /\ closing' = "none")
          => /\ eio' = "none" /\ closed'
             /\ failed' = "none"
             /\ ~HasEvent(emitted', "error")]_vars
  /\ ((connected /\ closing = "sending") ~> (eio = "none" /\ closing = "none"))

C11_Witness ==
  /\ connected /\ closed /\ eio = "none" /\ closing = "none"
  /\ logged = <<"failed to send close">>
  /\ emitted = <<"close">> /\ failed = "none"

\* C12: the closed flag is never set on a Room that still holds a live
\* transport unless a close is in progress: close() called while a transport
\* exists, also before the handshake payload, tears the transport down.
LiveTransport == eio \in {"connecting", "open", "openIgnored"}

C12_CloseNeverLeavesTransportOpen ==
  (closed /\ LiveTransport) => closing = "sending"

\* C13: while the transport is open and the handshake payload has not been
\* received on it, and once the Room is closed, call(), chat() and
\* callWithCallback() fail and hand no frame to the transport.
OpenState == eio = "open" /\ ~handshaken /\ ~closed
ClosedState == closed /\ eio \in {"none", "closed"} /\ closing = "none"

C13_CallsFailUnlessConnected ==
  [][((OpenState \/ ClosedState) /\ (Call \/ Chat \/ CallWithCallback))
       => (sent' = <<>> /\ failed' # "none")]_vars

\* C14: a transport error after the open notification emits the Room 'error'
\* event, sets the closed flag, leaves the transport closed, emits 'close'
\* and leaves no listener attached.
C14_TransportErrorForcesClosed ==
  [][(\E c \in Codes : eioErrorAfterOpen(TransportError(c)))
       => /\ HasEvent(emitted', "error") /\ HasEvent(emitted', "close")
          /\ closed' /\ ~LiveTransport'
          /\ lsn' = NoListeners]_vars

\* C15: a step that dispatches a 401 or 429 envelope, in whatever state,
\* emits the typed 'error' and ends the session: the closed flag is set and
\* the transport is gone or being closed.
C15_FatalEnvelopeIsTerminal ==
  [][(inbound'.kind = "array" /\ HasKind(inbound', {"401", "429"}))
       => /\ HasEvent(emitted', "error")
          /\ closed'
          /\ (LiveTransport' => closing' = "sending")]_vars

\* C16: once a connected Room is closed no callback-RPC request and no waitFile wait
\* is still pending, and no listener is attached.
C16_CloseSettlesPendingWork ==
  (connected /\ ClosedState)
    => /\ \A r \in Requests : reqs[r].state # "pending"
       /\ fwait # "pending"
       /\ lsn = NoListeners

\* C17: on a connected session, when the dispatcher has finished a typed
\* envelope fewer than 10 server events are unacknowledged; an envelope that
\* brings sack to last_sack + 10 or beyond sends the ack-only frame at once.
LastEntryTyped ==
  /\ inbound.kind = "array" /\ Len(inbound.entries) > 0
  /\ inbound.entries[Len(inbound.entries)].kind \notin {"close", "malformed"}

C17_UnacknowledgedBelowThreshold ==
  /\ []((connected /\ LastEntryTyped) => sack - last_sack < 10)
  /\ [][(connected /\ inbound'.kind = "array" /\ Len(inbound'.entries) = 1
           /\ inbound'.entries[1].kind = "generic"
           /\ inbound'.entries[1].seq >= last_sack + 10)
          => (sent' = <<AckFrame(sack')>> /\ last_sack' = sack')]_vars

C17_Witness ==
  /\ connected /\ LastEntryTyped
  /\ sack >= 2 * MAX_UNACKNOWLEDGED - 1 /\ last_sack = sack
  /\ sent = <<AckFrame(sack)>>

\* C18: a flush (sendAck, or the transport's ping) sends a frame or moves
\* last_sack only when the Room is connected and last_sack differs from sack;
\* the frame is then the text [sack] and last_sack becomes sack; ack is never
\* changed, and a flush with nothing unacknowledged sends nothing.
C18_FlushOnlyWhenBehind ==
  [][(SendAck \/ Ping)
       => /\ ack' = ack /\ sack' = sack
          /\ (sent' # <<>> \/ last_sack' # last_sack)
               => (connected /\ last_sack # sack /\ last_sack' = sack)
          /\ (connected /\ last_sack # sack /\ eio # "none")
               => /\ sent' = <<AckFrame(sack)>>
                  /\ wire' = <<"[" \o ToString(sack) \o "]">>
          /\ (last_sack = sack) => (sent' = <<>> /\ wire' = <<>>)]_vars

C18_Witness ==
  /\ connected /\ inbound = NoFrame /\ pongWait
  /\ sent = <<AckFrame(sack)>> /\ last_sack = sack /\ sack > 0

\* C19: on a connection whose handshake payload has been processed ack only
\* grows: every step adds to it exactly the number of call and close frames
\* the step sent, each of which carries a count above the previous ack.
FrameCount(fs) == Cardinality({i \in DOMAIN fs : fs[i].t \in {"call", "close"}})

C19_OutboundCountStepsByOne ==
  [][(handshaken /\ eio = "open")
       => /\ ack' = ack + FrameCount(sent')
          /\ \A i \in DOMAIN sent' :
               sent'[i].t \in {"call", "close"} => sent'[i].ack > ack]_vars

\* C20 (as claimed): the text of a call frame parses to
\* [sack, [[0, {fn, args}], ack]] with the Room's sack and its incremented
\* ack, the text of a close frame is [sack, [[2], ack]], and the (fn, args)
\* read back from a call frame are the ones call() was given.
CallObject(f) == Obj(<<<<"fn", Str(f.fn)>>, <<"args", Arr(f.args)>>>>)
CloseText(s, a) == "[" \o ToString(s) \o ",[[2]," \o ToString(a) \o "]]"

C20_CallFrameCarriesBareObject ==
  \A i \in DOMAIN sent :
    /\ sent[i].t = "call"
         => JSON_parse(wire[i])
              = Arr(<<Num(sack), Arr(<<Arr(<<Num(0), CallObject(sent[i])>>), Num(ack)>>)>>)
    /\ sent[i].t = "close" => wire[i] = CloseText(sack, ack)

\* C20 (amended): the text of a call frame parses to
\* [sack, [[0, ["call", {fn, args}]], ack]]; the rest as claimed.
C20_CallFrameCarriesCallEnvelope ==
  \A i \in DOMAIN sent :
    /\ sent[i].t = "call"
         => LET v == JSON_parse(wire[i])
            IN /\ v = Arr(<<Num(sack),
                            Arr(<<Arr(<<Num(0),
                                        Arr(<<Str("call"), CallObject(sent[i])>>)>>),
                                  Num(ack)>>)>>)
               /\ JSON_stringify(v) = wire[i]
               /\ v.a[2].a[1].a[2].a[2].o[1] = <<"fn", Str(sent[i].fn)>>
               /\ v.a[2].a[1].a[2].a[2].o[2] = <<"args", Arr(sent[i].args)>>
    /\ sent[i].t = "close" => wire[i] = CloseText(sack, ack)

C20_Witness ==
  /\ Len(sent) = 1 /\ sent[1].t = "call" /\ sent[1].fn = "chat"
  /\ sent[1].args = <<Str(Nick), Str("aa")>>
  /\ sack = 2 /\ ack = 2
  /\ wire = <<"[2,[[0,[\"call\",{\"fn\":\"chat\",\"args\":[\"nick\",\"aa\"]}]],2]]">>

\* C21: on every connection 'connected' is emitted only after the handshake
\* payload was processed (connected flag true) and after 'subscribed' was
\* emitted on that connection, whatever order the envelopes arrive in.
C21_ConnectedAfterHandshakeAndSubscribed ==
  [][\A i \in DOMAIN emitted' :
       emitted'[i] = "connected" =>
         /\ connected'
         /\ handshaken'
         /\ \/ subscribed
            \/ \E j \in 1..(i - 1) : emitted'[j] = "subscribed"]_vars

\* C22: processing the handshake payload sets connected; a token already held
\* is kept and exactly one useSession call frame carrying it is sent;
\* otherwise the token becomes the payload's session value and nothing is sent.
C22_HandshakeEstablishesOrReusesToken ==
  [][AnyHandshake =>
       /\ connected'
       /\ IF session # "none"
            THEN /\ session' = session
                 /\ Len(sent') = 1
                 /\ sent'[1].t = "call" /\ sent'[1].fn = "useSession"
                 /\ sent'[1].args = <<Str(session)>>
                 /\ JSON_parse(wire'[1]).a[2].a[1].a[2].a[2].o[2][2].a
                      = <<Str(session)>>
            ELSE /\ session' = inbound'.session
                 /\ sent' = <<>>]_vars

\* a payload carrying another token arrived while a token was held
C22_Witness ==
  /\ inbound.kind = "initial" /\ inbound.session # session
  /\ Len(sent) = 1 /\ sent[1].fn = "useSession"

\* C23: the role of a Message is determined by its admin, staff and user
\* flags alone and is exactly one of the five roles, by priority: System when
\* (admin or staff) and not user, else Admin when admin, else Staff when
\* staff, else User when user, else White.
C23_RoleByPriority ==
  HasEvent(emitted, "chat") =>
    LET m == message.flags
    IN /\ message.role \in {"System", "Admin", "Staff", "User", "White"}
       /\ message.role =
            IF (m.admin \/ m.staff) /\ ~m.user THEN "System"
            ELSE IF m.admin THEN "Admin"
            ELSE IF m.staff THEN "Staff"
            ELSE IF m.user THEN "User"
            ELSE "White"
       /\ \A k \in DOMAIN FLAGS \ {"donor"} :
            m[k] = IF k \in DOMAIN inbound.entries[1].options
                     THEN inbound.entries[1].options[k] ELSE FALSE

\* a message of an admin who is not logged in: System takes priority
C23_Witness ==
  /\ HasEvent(emitted, "chat")
  /\ message.flags.admin /\ ~message.flags.user /\ message.role = "System"

\* C24: a read of the live file collection never returns an expired file.
\* Reading Room.files removes every entry whose expiry is before now, keeps
\* the others and returns exactly those; getFile(id) of an expired file
\* returns null and removes the entry, and returns a held file otherwise.
Expiring(fs, t) == {k \in DOMAIN fs : fs[k].expires < t}

C24_ReadsNeverReturnExpired ==
  [][/\ returned'.op = "files" =>
          /\ DOMAIN files' = DOMAIN files \ Expiring(files, now)
          /\ \A k \in DOMAIN files' : files'[k] = files[k]
          /\ returned'.value = {files'[k] : k \in DOMAIN files'}
          /\ \A f \in returned'.value : ~(f.expires < now')
     /\ returned'.op = "getFile" =>
          /\ \A f \in returned'.value : ~(f.expires < now')
          /\ returned'.id \in Expiring(files, now) =>
                /\ returned'.kind = "null"
                /\ returned'.id \notin DOMAIN files'
          /\ returned'.id \in DOMAIN files \ Expiring(files, now) =>
                /\ returned'.value = {files[returned'.id]}
                /\ files' = files]_vars

\* getFile met a file whose expiry had passed while the other file lives on
C24_Witness ==
  /\ returned.op = "getFile" /\ returned.kind = "null"
  /\ DOMAIN files # {} /\ now > 0

\* C25: after any sequence of operations, a close followed by a new
\* connect() included, a non-expired file announced by a dispatched files
\* envelope is in the live file set, it stays there until a delete_file
\* envelope for its id is dispatched, and a dispatched delete_file removes it.
Dispatched(kind) ==
  {d \in {inbound'.entries[dispatched'[i]] : i \in DOMAIN dispatched'} :
     d.kind = kind}

C25_AnnouncedFilesLiveUntilDeleted ==
  [][/\ \A d \in Dispatched("files") :
          \A i \in DOMAIN RawFiles(d) :
            RawFiles(d)[i].expires >= now => RawFiles(d)[i].id \in DOMAIN files'
     /\ \A d \in Dispatched("delete_file") : d.id \notin DOMAIN files'
     /\ \A k \in DOMAIN files :
          (files[k].expires >= now /\ \A d \in Dispatched("delete_file") : d.id # k)
            => k \in DOMAIN files']_vars

\* C26: once a time envelope carrying server time T was dispatched at local
\* time L, every File built from a later files envelope has
\* expires = raw expiry - (T - L) and uploaded = raw upload time - (T - L).
C26_ServerTimestampsAreCorrected ==
  [][\A d \in Dispatched("files") :
       (time_delta # <<>> /\ lsn.file) =>
         \A i \in DOMAIN RawFiles(d) :
           LET raw == RawFiles(d)[i]
           IN /\ raw.id \in DOMAIN files'
              /\ files'[raw.id].expires = raw.expires - time_delta[1]
              /\ files'[raw.id].uploaded = raw.uploaded - time_delta[1]]_vars

\* C27: chat(msg) with a message that is not a string, is empty or is longer
\* than config.chat_max_message_length throws VolaError synchronously, hands
\* no frame to the transport and leaves ack, sack and last_sack unchanged.
InvalidMessage(msg) ==
  msg.t # "str" \/ Len(msg.s) = 0 \/ Len(msg.s) > MaxMessageLength

C27_InvalidChatSendsNothing ==
  [][\A i \in DOMAIN ChatMessages, options \in ChatOptions :
       (InvalidMessage(ChatMessages[i]) /\ ChatWith(ChatMessages[i], options)) =>
         /\ ErrorClass(failed') = "VolaError"
         /\ sent' = <<>> /\ wire' = <<>>
         /\ UNCHANGED <<ack, sack, last_sack>>]_vars

\* a message one character too long was refused on a connected Room
C27_Witness ==
  /\ failed = "Message too long" /\ connected /\ eio = "open" /\ ~closed

\* C28: an error carries the volaSaysPlsLeave marker if and only if it is a
\* VolaPrivilegeError; a plain VolaError raised for bad input does not.
C28_MarkerOnlyOnPrivilegeErrors ==
  failed # "none" =>
    (Carries(failed, "volaSaysPlsLeave") <=> ErrorClass(failed) = "VolaPrivilegeError")

\* C29: a role-guarded operation attempted without the required role throws
\* VolaPrivilegeError before it validates its arguments and before it issues
\* a frame or a REST request.  deleteFiles and setConfig need owner, admin or
\* janitor; whitelistFiles, blacklistFiles, removeMessages, ban and unban
\* need admin; chat with the admin option needs admin or staff.
Refused ==
  /\ ErrorClass(failed') = "VolaPrivilegeError"
  /\ sent' = <<>> /\ wire' = <<>> /\ rest' = <<>>

C29_UnprivilegedOperationsRefused ==
  [][/\ ~(roles.owner \/ roles.admin \/ roles.janitor) =>
          /\ \A i \in DOMAIN Ids : DeleteFilesWith(Ids[i]) => Refused
          /\ SetConfig => Refused
     /\ ~roles.admin =>
          /\ \A i \in DOMAIN Ids :
               /\ WhitelistFilesWith(Ids[i]) => Refused
               /\ RemoveMessagesWith(Ids[i]) => Refused
               /\ \A options \in GuardOptions :
                    BlacklistFilesWith(Ids[i], options) => Refused
          /\ \A i \in DOMAIN BanSpecs, options \in GuardOptions :
               /\ BanWith(BanSpecs[i], options) => Refused
               /\ UnbanWith(BanSpecs[i], options) => Refused
     /\ ~(roles.admin \/ roles.staff) =>
          \A i \in DOMAIN ChatMessages :
            ChatWith(ChatMessages[i], [me |-> FALSE, admin |-> TRUE]) => Refused]_vars

\* C30: role flags are independently settable.  An owner, admin or staff
\* envelope leaves the other role flags as they were, and a userInfo envelope
\* leaves every role it does not mention as it was, in any order of envelopes.
C30_RolesIndependentlySettable ==
  [][/\ \A k \in {"owner", "admin", "staff"} : \A d \in Dispatched(k) :
          \A r \in DOMAIN roles \ {k} : roles'[r] = roles[r]
     /\ \A d \in Dispatched("userInfo") :
          \A r \in DOMAIN roles \ DOMAIN d.data : roles'[r] = roles[r]]_vars

\* C31: _getUploadKey repeats its request until a response carries a key, a
\* server and a file id.  A response without the triple and with a retry-after
\* t (a t of 0 counts as none) emits 'upload_blocked' exactly once, with t,
\* and the next request is issued only once t has passed; a response with
\* neither ends the call with an error; the call resolves with the triple of
\* the first response that carries one, and then requests nothing more.
Usable(params) == params.key # "" /\ params.server # "" /\ params.file_id # ""

C31_UploadKeyRetriesUntilUsable ==
  [][/\ \A params \in UploadResponses : UploadResponseWith(params) =>
          /\ rest' = <<>>
          /\ IF Usable(params)
               THEN /\ upload'.pc = "resolved"
                    /\ upload'.result =
                         [outcome |-> "triple", key |-> params.key,
                          server |-> params.server, file_id |-> params.file_id]
                    /\ emitted' = <<>>
               ELSE IF params.timeout > 0
                 THEN /\ emitted' = <<"upload_blocked">>
                      /\ upload'.blocked =
                           Append(upload.blocked, [timeout |-> params.timeout, at |-> now])
                      /\ upload'.pc = "sleeping"
                 ELSE /\ upload'.pc = "thrown"
                      /\ upload'.result.outcome \in {"VolaError", "VolaPrivilegeError"}
                      /\ emitted' = <<>>
     /\ (upload.pc = "sleeping" /\ upload' # upload) =>
          LET last == upload.blocked[Len(upload.blocked)]
          IN /\ now >= last.at + last.timeout
             /\ rest' = <<"getUploadKey">>
             /\ upload'.pc = "requesting"
     /\ (upload.pc \in {"resolved", "thrown"} /\ ~GetUploadKey) =>
          (upload' = upload /\ rest' = <<>>)]_vars

\* blocked twice, then a usable response
C31_Witness ==
  /\ upload.pc = "resolved" /\ upload.result.outcome = "triple"
  /\ Len(upload.blocked) = 2 /\ upload.count = 3

\* C32: a pending waitFile(FileId, timeout) resolves with the file in the
\* step that dispatches a files envelope announcing FileId; otherwise it is
\* rejected by its own timeout and by nothing else, and the timeout emits no
\* 'error' and changes nothing of the session.
Announced(id) ==
  \E d \in Dispatched("files") : \E i \in DOMAIN RawFiles(d) : RawFiles(d)[i].id = id

C32_WaitFileResolvesOrExpiresAlone ==
  [][/\ (fwait = "pending" /\ Announced(FileId)) =>
          /\ fwait' = "resolved"
          /\ Len(fvalue') = 1 /\ fvalue'[1].id = FileId
     /\ (fwait # "resolved" /\ fwait' = "resolved") => Announced(FileId)
     /\ (fwait # "rejected" /\ fwait' = "rejected") => WaitFileDeadline
     /\ WaitFileDeadline =>
          /\ fwait' = "rejected"
          /\ emitted' = <<>> /\ sent' = <<>> /\ failed' = "none"
          /\ UNCHANGED <<ack, sack, last_sack, connected, closed, session, eio,
                         closing, lsn, callbacks, reqs, conn, roles, files>>
     /\ fwait \in {"resolved", "rejected"} => fwait' = fwait]_vars

\* C33: connect() always settles.  Once the transport has closed, or a close
\* control envelope was dispatched, while connect() waits for 'connected'
\* after the open notification, connect() leaves that wait: it rejects.
ClosedWhileWaiting ==
  /\ conn.pc = "waiting"
  /\ \/ eio = "closed"
     \/ inbound.kind = "array" /\ HasKind(inbound, {"close"})

C33_ConnectSettlesAfterClose == ClosedWhileWaiting ~> (conn.pc # "waiting")

\* C34: on one connection at most one close frame is handed to the transport,
\* however often and from wherever close() is invoked (the caller, close
\* control envelopes, 401 and 429 envelopes, the pong deadline), and ack grows
\* by one exactly with that frame.
CloseFrames(fs) == Cardinality({i \in DOMAIN fs : fs[i].t = "close"})

C34_CloseFrameSentOnce ==
  /\ [](closeFrames <= 1)
  /\ [][/\ CloseFrames(sent') <= 1
        /\ CloseFrames(sent') = 1 => (closing = "none" /\ closing' = "sending")
        /\ inbound'.kind # "initial" => ack' = ack + CloseFrames(sent')]_vars

\* one frame carried two close control envelopes; the second close() met the
\* close in progress
C34_Witness ==
  /\ inbound.kind = "array" /\ Len(inbound.entries) = 2
  /\ inbound.entries[1].kind = "close" /\ inbound.entries[2].kind = "close"
  /\ dispatched = <<1, 2>>
  /\ CloseFrames(sent) = 1 /\ closeFrames = 1 /\ closing = "sending"

\* C35: on one connection no call frame follows the close frame: while a
\* close is in progress call() and callWithCallback() hand nothing to the
\* transport.
C35_NoCallAfterCloseFrame ==
  [][/\ closeFrames > 0 => ~HasFrame(sent', "call")
     /\ (closing = "sending" /\ (Call \/ CallWithCallback)) => sent' = <<>>]_vars

\* C36: once the closed flag is set no envelope reaches a handler.  A step
\* taken while closed dispatches nothing and changes neither sack, the role
\* flags nor the file set; in a frame that carries a close control envelope
\* the entries after it are not dispatched, so that the step emits nothing
\* on their behalf.
AfterClose(es, i) == \E j \in 1..(i - 1) : es[j].kind = "close"

C36_NothingDispatchedOnceClosed ==
  [][/\ closed =>
          /\ dispatched' = <<>>
          /\ UNCHANGED <<sack, roles, files>>
     /\ \A k \in DOMAIN dispatched' :
          ~AfterClose(inbound'.entries, dispatched'[k])
     /\ (inbound'.kind = "array" /\ Len(inbound'.entries) > 0
           /\ inbound'.entries[1].kind = "close")
          => (sack' = inbound'.entries[1].seq /\ ~HasEvent(emitted', "connected"))]_vars

\* C37: a call() that throws, in whatever state of the session, leaves ack
\* and last_sack as they were before the call.
C37_ThrowingCallChangesNothing ==
  [][(Call /\ failed' # "none") => UNCHANGED <<ack, sack, last_sack>>]_vars

\* C38: a callWithCallback whose call() throws leaves no entry for that
\* request in the pending-callback table: the table is the one it was
\* before the request.
C38_FailedRequestLeavesNoEntry ==
  [][(CallWithCallback /\ failed' # "none") => callbacks' = callbacks]_vars

\* C39: ManyRooms.run() settles only after close() was attempted on every
\* room; the attempt on every room is made as soon as one room's run()
\* settles (a room closed or failed), whatever the close of another room
\* did; and once run() has settled the orchestrator holds no rooms and no
\* listeners.
ManySettled == many.pc \in {"resolved", "rejected"}

C39_RunClosesAllAndCleansUp ==
  /\ ManySettled => many.closeTried = RoomIds
  /\ (\E i \in RoomIds : many.room[i].run \in {"resolved", "rejected"})
       => many.closeTried = RoomIds
  /\ ManySettled => (many.rooms = {} /\ many.listeners = {})
====
